---- MODULE Spec2Model ----
(***************************************************************************)
(* A model of the BAB2 recursive block codec (Encode / Decode and the      *)
(* passes they call).  Bytes are integers 0..255, a colour is a record     *)
(* [R, G, B] (alpha is always 255 in the code and is left out), a raster   *)
(* is [w, h, pix] with pix a function on <<x, y>>.  Go slices are          *)
(* sequences; a Go index i is the TLA+ index i + 1.                        *)
(***************************************************************************)
EXTENDS Integers, Sequences, FiniteSets, TLC

(***************************************************************************)
(* Bounds of the model.                                                    *)
(***************************************************************************)
\* rasters of the enumerated family have at most this many pixels
MaxArea == 4
\* worker counts (runtime.NumCPU()) range over 1..MaxWorkers
MaxWorkers == 2
\* hand-made bitstreams hold at most this many bytes
MaxBitBytes == 3

\* most WriteBit/WriteByte calls on one BitWriter
MaxOps == 4

\* most paint jobs handed to paintLeafJobsParallel on its own
MaxJobs == 12

(***************************************************************************)
(* Small helpers.                                                          *)
(***************************************************************************)
Min(a, b) == IF a < b THEN a ELSE b

Max(a, b) == IF a > b THEN a ELSE b

Abs(a) == IF a < 0 THEN -a ELSE a

SetMin(S) == CHOOSE m \in S : \A n \in S : m <= n

SetMax(S) == CHOOSE m \in S : \A n \in S : m >= n

\* sum of a sequence of numbers, by halves
SumSeq(s) ==
    LET sum[lo \in 1..(Len(s) + 1), hi \in 0..Len(s)] ==
            IF lo > hi THEN 0
            ELSE IF lo = hi THEN s[lo]
            ELSE sum[lo, (lo + hi) \div 2] + sum[((lo + hi) \div 2) + 1, hi]
    IN  sum[1, Len(s)]

RECURSIVE Pow2(_)
Pow2(k) == IF k = 0 THEN 1 ELSE 2 * Pow2(k - 1)

\* bit k (0 = least significant) of byte b
BitAt(b, k) == (b \div Pow2(k)) % 2

\* b | (1 << k) on a byte
OrBit(b, k) == IF BitAt(b, k) = 1 THEN b ELSE (b + Pow2(k)) % 256

\* (a slip: the stripe results are joined last stripe first)
RECURSIVE FlattenBackwards(_)
FlattenBackwards(ss) ==
    IF ss = <<>> THEN <<>>
    ELSE FlattenBackwards(Tail(ss)) \o Head(ss)

\* concatenation of a sequence of sequences, by halves
RECURSIVE Flatten(_)
Flatten(ss) ==
    IF ss = <<>> THEN <<>>
    ELSE IF Len(ss) = 1 THEN ss[1]
    ELSE LET m == Len(ss) \div 2
         IN  Flatten(SubSeq(ss, 1, m)) \o Flatten(SubSeq(ss, m + 1, Len(ss)))

(***************************************************************************)
(* Format constants and parameters.                                        *)
(***************************************************************************)
\* "BAB2"
magicCodec2 == <<66, 65, 66, 50>>

ErrInvalidMagic == "codec2: invalid magic"

ErrEOF == "EOF"

ErrUnexpectedEOF == "unexpected EOF"

RGB(r, g, b) == [R |-> r, G |-> g, B |-> b]

\* (a slip: no upper clamp)
clampQualityLow(q) == IF q < 1 THEN 1 ELSE q

\* quality clamp of Encode, Decode and paramsForQuality
clampQuality(q) == IF q < 1 THEN 1 ELSE IF q > 100 THEN 100 ELSE q

paramsForQualityUp(q) ==
    LET qi == clampQuality(q)
    IN  [minBlock |-> 1,
         maxGrad  |-> 1 + qi,
         colorTol |-> 1 + ((qi * 12) \div 100)]

paramsForQuality(q) ==
    LET qi == 100 - clampQuality(q)
    IN  [minBlock |-> 1,
         maxGrad  |-> 1 + qi,
         colorTol |-> 1 + ((qi * 12) \div 100)]

\* integer luma (0..255), Rec. 601 weights
luma(c) == (299 * c.R + 587 * c.G + 114 * c.B + 500) \div 1000

(***************************************************************************)
(* Rasters.                                                                *)
(***************************************************************************)
InBounds(img, px, py) == px >= 0 /\ py >= 0 /\ px < img.w /\ py < img.h

\* the points of region (x,y,w,h) in the scan order of the code's loops,
\* as pairs <<xx, yy>> relative to the region
Scan(w, h) ==
    IF w <= 0 \/ h <= 0 THEN <<>>
    ELSE [k \in 1..(w * h) |-> <<(k - 1) % w, (k - 1) \div w>>]

analyzeBlock(img, x, y, w, h) ==
    LET inside(p) == InBounds(img, x + p[1], y + p[2])
        pts == SelectSeq(Scan(w, h), inside)
        col(p) == img.pix[<<x + p[1], y + p[2]>>]
        isBorder(p) == p[1] = 0 \/ p[2] = 0 \/ p[1] = w - 1 \/ p[2] = h - 1
        all == {pts[k] : k \in 1..Len(pts)}
        lAll == {luma(col(p)) : p \in all}
        lBorder == {luma(col(p)) : p \in {q \in all : isBorder(q)}}
        lInner == {luma(col(p)) : p \in {q \in all : ~isBorder(q)}}
        count == Len(pts)
        sumR == SumSeq([k \in 1..count |-> col(pts[k]).R])
        sumG == SumSeq([k \in 1..count |-> col(pts[k]).G])
        sumB == SumSeq([k \in 1..count |-> col(pts[k]).B])
    IN  IF count = 0
        THEN [total |-> 0, border |-> 0, inner |-> 0, avg |-> RGB(0, 0, 0)]
        ELSE [total  |-> SetMax(lAll) - SetMin(lAll),
              border |-> IF lBorder = {} THEN 0
                         ELSE SetMax(lBorder) - SetMin(lBorder),
              inner  |-> IF lInner = {} THEN 0
                         ELSE SetMax(lInner) - SetMin(lInner),
              avg    |-> RGB(sumR \div count, sumG \div count, sumB \div count)]

(***************************************************************************)
(* Stripe Scheduler: splitStripes.  n is the value of encoderStripes.      *)
(***************************************************************************)
\* (a slip: the next stripe starts base rows further, not h rows)
RECURSIVE stripeLoopBase(_, _, _, _, _)
stripeLoopBase(i, n, base, rem, y) ==
    IF i >= n THEN <<>>
    ELSE LET h == IF i < rem THEN base + 1 ELSE base
         IN  <<[y |-> y, h |-> h]>> \o stripeLoopBase(i + 1, n, base, rem, y + base)

RECURSIVE stripeLoop(_, _, _, _, _)
stripeLoop(i, n, base, rem, y) ==
    IF i >= n THEN <<>>
    ELSE LET h == IF i < rem THEN base + 1 ELSE base
         IN  <<[y |-> y, h |-> h]>> \o stripeLoop(i + 1, n, base, rem, y + h)

\* (a slip: the stripe count is not capped by the height)
splitStripesNoCap(totalH, minBlock, encoderStripes) ==
    IF totalH <= 0 THEN <<[y |-> 0, h |-> 0]>>
    ELSE LET n == IF encoderStripes < 1 THEN 1 ELSE encoderStripes
         IN  IF n = 1 THEN <<[y |-> 0, h |-> totalH]>>
             ELSE stripeLoop(0, n, totalH \div n, totalH % n, 0)

splitStripes(totalH, minBlock, encoderStripes) ==
    IF totalH <= 0 THEN <<[y |-> 0, h |-> 0]>>
    ELSE LET n0 == IF encoderStripes < 1 THEN 1 ELSE encoderStripes
             mbh0 == totalH \div minBlock
             maxByHeight == IF mbh0 < 1 THEN 1 ELSE mbh0
             n == IF n0 > maxByHeight THEN maxByHeight ELSE n0
         IN  IF n = 1 THEN <<[y |-> 0, h |-> totalH]>>
             ELSE stripeLoop(0, n, totalH \div n, totalH % n, 0)

(***************************************************************************)
(* Block Classifier / analysis pass: collectRegionColors.  The recursion   *)
(* is kept as an explicit stack of pending regions; one step handles one   *)
(* node: it appends the node's pattern entry and either its leaf colour    *)
(* or its two children (first child on top, so the order is pre-order).    *)
(***************************************************************************)
Region(x, y, w, h) == [x |-> x, y |-> y, w |-> w, h |-> h]

\* (a slip: a square region is split by height)
splitAxisTall(w, h, minBlock) ==
    IF w > h /\ (w \div 2) >= minBlock THEN "w"
    ELSE IF (h \div 2) < minBlock THEN "none"
    ELSE "h"

\* the split of an internal node, shared by the three passes' geometry:
\* "w" = by width, "h" = by height, "none" = cannot be split
splitAxis(w, h, minBlock) ==
    IF w >= h /\ (w \div 2) >= minBlock THEN "w"
    ELSE IF (h \div 2) < minBlock THEN "none"
    ELSE "h"

\* (a slip: both children get the rounded-down half)
childrenHalf(r, axis) ==
    IF axis = "w"
    THEN <<Region(r.x, r.y, r.w \div 2, r.h),
           Region(r.x + (r.w \div 2), r.y, r.w \div 2, r.h)>>
    ELSE <<Region(r.x, r.y, r.w, r.h \div 2),
           Region(r.x, r.y + (r.h \div 2), r.w, r.h \div 2)>>

\* (a slip: the first child is the whole region)
childrenWhole(r, axis) ==
    IF axis = "w"
    THEN <<Region(r.x, r.y, r.w, r.h), Region(r.x + r.w, r.y, 0, r.h)>>
    ELSE <<Region(r.x, r.y, r.w, r.h), Region(r.x, r.y + r.h, r.w, 0)>>

children(r, axis) ==
    IF axis = "w"
    THEN <<Region(r.x, r.y, r.w \div 2, r.h),
           Region(r.x + (r.w \div 2), r.y, r.w - (r.w \div 2), r.h)>>
    ELSE <<Region(r.x, r.y, r.w, r.h \div 2),
           Region(r.x, r.y + (r.h \div 2), r.w, r.h - (r.h \div 2))>>

\* (a slip: no shortcut for a flat block)
isLeafNodeNoFlat(img, r, params) ==
    LET a == analyzeBlock(img, r.x, r.y, r.w, r.h)
        edgeDominated ==
            /\ a.border > 0 /\ a.inner > 0
            /\ a.border >= a.inner * 2
            /\ (r.w > params.minBlock * 2 \/ r.h > params.minBlock * 2)
    IN  \/ (r.w <= params.minBlock /\ r.h <= params.minBlock)
        \/ (~edgeDominated /\ a.total <= params.maxGrad
              /\ r.w <= 4 * params.minBlock /\ r.h <= 4 * params.minBlock)
        \/ splitAxis(r.w, r.h, params.minBlock) = "none"

\* (a slip: an edge-dominated block is not told apart)
isLeafNodeNoEdge(img, r, params) ==
    LET a == analyzeBlock(img, r.x, r.y, r.w, r.h)
    IN  \/ (r.w <= params.minBlock /\ r.h <= params.minBlock)
        \/ a.total = 0
        \/ (a.total <= params.maxGrad
              /\ r.w <= 4 * params.minBlock /\ r.h <= 4 * params.minBlock)
        \/ splitAxis(r.w, r.h, params.minBlock) = "none"

\* the decision collectRegionColors takes at one node: TRUE = leaf
isLeafNode(img, r, params) ==
    LET a == analyzeBlock(img, r.x, r.y, r.w, r.h)
        edgeDominated ==
            /\ a.border > 0 /\ a.inner > 0
            /\ a.border >= a.inner * 2
            /\ (r.w > params.minBlock * 2 \/ r.h > params.minBlock * 2)
    IN  \/ (r.w <= params.minBlock /\ r.h <= params.minBlock)
        \/ a.total = 0
        \/ (~edgeDominated /\ a.total <= params.maxGrad
              /\ r.w <= 4 * params.minBlock /\ r.h <= 4 * params.minBlock)
        \/ splitAxis(r.w, r.h, params.minBlock) = "none"

NewWalk(r) == [stack |-> <<r>>, leaves |-> <<>>, pattern |-> <<>>, rects |-> <<>>]

\* (a slip: an internal node leaves no pattern entry)
collectStepNoEntry(img, params, st) ==
    LET r == Head(st.stack)
        rest == Tail(st.stack)
    IN  IF isLeafNode(img, r, params)
        THEN [stack   |-> rest,
              leaves  |-> Append(st.leaves, analyzeBlock(img, r.x, r.y, r.w, r.h).avg),
              pattern |-> Append(st.pattern, TRUE),
              rects   |-> Append(st.rects, r)]
        ELSE [stack   |-> children(r, splitAxis(r.w, r.h, params.minBlock)) \o rest,
              leaves  |-> st.leaves,
              pattern |-> st.pattern,
              rects   |-> st.rects]

collectStep(img, params, st) ==
    LET r == Head(st.stack)
        rest == Tail(st.stack)
    IN  IF isLeafNode(img, r, params)
        THEN [stack   |-> rest,
              leaves  |-> Append(st.leaves, analyzeBlock(img, r.x, r.y, r.w, r.h).avg),
              pattern |-> Append(st.pattern, TRUE),
              rects   |-> Append(st.rects, r)]
        ELSE [stack   |-> children(r, splitAxis(r.w, r.h, params.minBlock)) \o rest,
              leaves  |-> st.leaves,
              pattern |-> Append(st.pattern, FALSE),
              rects   |-> st.rects]

(***************************************************************************)
(* Palette Builder: closeColor, buildPalettes.                             *)
(***************************************************************************)
closeColor(a, b, tol) ==
    /\ Abs(a.R - b.R) <= tol
    /\ Abs(a.G - b.G) <= tol
    /\ Abs(a.B - b.B) <= tol

\* number of leaves that share one palette (i%256 in buildPalettes,
\* leafCounter/256 in decodeRegionJobs)
PalGroup == 256

\* capacity test of buildPalettes: a palette may grow up to this size
PalCap == 256

\* (a slip: only an equal colour is reused)
findEqual(p, c, tol) ==
    LET hits == {j \in 1..Len(p) : c = p[j]}
    IN  IF hits = {} THEN -1 ELSE SetMin(hits) - 1

\* (a slip: the last close colour wins)
findCloseLast(p, c, tol) ==
    LET hits == {j \in 1..Len(p) : closeColor(c, p[j], tol)}
    IN  IF hits = {} THEN -1 ELSE SetMax(hits) - 1

\* Go index of the first colour of palette p close to c, or -1
findClose(p, c, tol) ==
    LET hits == {j \in 1..Len(p) : closeColor(c, p[j], tol)}
    IN  IF hits = {} THEN -1 ELSE SetMin(hits) - 1

\* (a slip: the index of a new colour is taken after the append)
buildStepAfterAppend(st, i, c, params) ==
    LET pals0 == IF i > 0 /\ (i % PalGroup) = 0 THEN Append(st.pals, <<>>) ELSE st.pals
        curPalID == Len(pals0) - 1
        p == pals0[curPalID + 1]
        found == findClose(p, c, params.colorTol)
    IN  IF found >= 0
        THEN [pals |-> pals0,
              refs |-> Append(st.refs, [pal |-> curPalID % 65536, idx |-> found % 256]),
              err  |-> ""]
        ELSE IF Len(p) >= PalCap
        THEN [pals |-> <<>>, refs |-> <<>>, err |-> "buildPalettes: palette exceeded 256 colors"]
        ELSE [pals |-> [pals0 EXCEPT ![curPalID + 1] = Append(p, c)],
              refs |-> Append(st.refs, [pal |-> curPalID % 65536, idx |-> (Len(p) + 1) % 256]),
              err  |-> ""]

\* (a slip: no new palette is started)
buildStepOneGroup(st, i, c, params) ==
    LET curPalID == Len(st.pals) - 1
        p == st.pals[curPalID + 1]
        found == findClose(p, c, params.colorTol)
    IN  IF found >= 0
        THEN [pals |-> st.pals,
              refs |-> Append(st.refs, [pal |-> curPalID % 65536, idx |-> found % 256]),
              err  |-> ""]
        ELSE IF Len(p) >= PalCap
        THEN [pals |-> <<>>, refs |-> <<>>, err |-> "buildPalettes: palette exceeded 256 colors"]
        ELSE [pals |-> [st.pals EXCEPT ![curPalID + 1] = Append(p, c)],
              refs |-> Append(st.refs, [pal |-> curPalID % 65536, idx |-> Len(p) % 256]),
              err  |-> ""]

\* one iteration of the loop of buildPalettes, for leaf number i (from 0);
\* st = [pals, refs, err]
buildStep(st, i, c, params) ==
    LET pals0 == IF i > 0 /\ (i % PalGroup) = 0 THEN Append(st.pals, <<>>) ELSE st.pals
        curPalID == Len(pals0) - 1
        p == pals0[curPalID + 1]
        found == findClose(p, c, params.colorTol)
    IN  IF found >= 0
        THEN [pals |-> pals0,
              refs |-> Append(st.refs, [pal |-> curPalID % 65536, idx |-> found % 256]),
              err  |-> ""]
        ELSE IF Len(p) >= PalCap
        THEN [pals |-> <<>>, refs |-> <<>>, err |-> "buildPalettes: palette exceeded 256 colors"]
        ELSE [pals |-> [pals0 EXCEPT ![curPalID + 1] = Append(p, c)],
              refs |-> Append(st.refs, [pal |-> curPalID % 65536, idx |-> Len(p) % 256]),
              err  |-> ""]

\* the state of buildPalettes before its loop: one empty palette
buildStart == [pals |-> <<(<<>>)>>, refs |-> <<>>, err |-> ""]

(***************************************************************************)
(* Bit I/O.  BitWriter = [buf, acc, nbit], BitReader = [data, pos, acc,    *)
(* nbit]; a read returns [br, v, err].                                     *)
(***************************************************************************)
NewBitWriter(buf) == [buf |-> buf, acc |-> 0, nbit |-> 0]

\* (a slip: bits are packed from the low end of the byte)
WriteBitLSB(bw, v) ==
    LET acc1 == IF v THEN OrBit(bw.acc, bw.nbit) ELSE bw.acc
        nbit1 == bw.nbit + 1
    IN  IF nbit1 = 8
        THEN [buf |-> Append(bw.buf, acc1), acc |-> 0, nbit |-> 0]
        ELSE [buf |-> bw.buf, acc |-> acc1, nbit |-> nbit1]

WriteBit(bw, v) ==
    LET acc1 == IF v THEN OrBit(bw.acc, 7 - bw.nbit) ELSE bw.acc
        nbit1 == bw.nbit + 1
    IN  IF nbit1 = 8
        THEN [buf |-> Append(bw.buf, acc1), acc |-> 0, nbit |-> 0]
        ELSE [buf |-> bw.buf, acc |-> acc1, nbit |-> nbit1]

RECURSIVE writeBitsFrom(_, _, _)
writeBitsFrom(bw, b, i) ==
    IF i >= 8 THEN bw
    ELSE writeBitsFrom(WriteBit(bw, BitAt(b, 7 - i) = 1), b, i + 1)

WriteByte(bw, b) ==
    IF bw.nbit = 0 THEN [bw EXCEPT !.buf = Append(@, b)]
    ELSE writeBitsFrom(bw, b, 0)

\* (a slip: the pending-bit count is not reset)
FlushNoReset(bw) ==
    IF bw.nbit = 0 THEN bw
    ELSE [buf |-> Append(bw.buf, bw.acc), acc |-> 0, nbit |-> bw.nbit]

Flush(bw) ==
    IF bw.nbit = 0 THEN bw
    ELSE [buf |-> Append(bw.buf, bw.acc), acc |-> 0, nbit |-> 0]

NewBitReaderFromBytes(b) == [data |-> b, pos |-> 0, acc |-> 0, nbit |-> 0]

ReadBit(br) ==
    IF br.nbit = 0 /\ br.pos >= Len(br.data)
    THEN [br |-> br, v |-> 0, err |-> ErrEOF]
    ELSE LET acc1 == IF br.nbit = 0 THEN br.data[br.pos + 1] ELSE br.acc
             pos1 == IF br.nbit = 0 THEN br.pos + 1 ELSE br.pos
             bit == BitAt(acc1, 7 - br.nbit)
             nbit1 == IF br.nbit + 1 = 8 THEN 0 ELSE br.nbit + 1
         IN  [br |-> [data |-> br.data, pos |-> pos1, acc |-> acc1, nbit |-> nbit1],
              v |-> bit, err |-> ""]

RECURSIVE readBitsFrom(_, _, _)
readBitsFrom(br, b, i) ==
    IF i >= 8 THEN [br |-> br, v |-> b, err |-> ""]
    ELSE LET r == ReadBit(br)
         IN  IF r.err # "" THEN [br |-> r.br, v |-> 0, err |-> r.err]
             ELSE readBitsFrom(r.br, IF r.v = 1 THEN OrBit(b, 7 - i) ELSE b, i + 1)

ReadByte(br) ==
    IF br.nbit = 0
    THEN IF br.pos >= Len(br.data)
         THEN [br |-> br, v |-> 0, err |-> ErrEOF]
         ELSE [br |-> [br EXCEPT !.pos = @ + 1], v |-> br.data[br.pos + 1], err |-> ""]
    ELSE readBitsFrom(br, 0, 0)

(***************************************************************************)
(* Bitstream Encoder: encodeRegion, encodeLeaf.                            *)
(* st = [bw, leafPos, patPos, err].                                        *)
(***************************************************************************)
\* (a slip: the leaf flag follows the index)
encodeLeafIndexFirst(bw, local) == WriteBit(WriteByte(bw, local), TRUE)

encodeLeaf(bw, local) == WriteByte(WriteBit(bw, TRUE), local)

RECURSIVE encodeRegion(_, _, _, _, _, _, _, _)
encodeRegion(x, y, w, h, params, leafLocal, pattern, st) ==
    IF st.patPos >= Len(pattern)
    THEN [st EXCEPT !.err = "encodeRegion: pattern overflow"]
    ELSE
    LET isLeaf == pattern[st.patPos + 1]
        st1 == [st EXCEPT !.patPos = @ + 1]
    IN  IF isLeaf
        THEN IF st1.leafPos >= Len(leafLocal)
             THEN [st1 EXCEPT !.err = "encodeRegion: leaf index overflow"]
             ELSE [st1 EXCEPT !.leafPos = @ + 1,
                              !.bw = encodeLeaf(st1.bw, leafLocal[st1.leafPos + 1])]
        ELSE
        LET st2 == [st1 EXCEPT !.bw = WriteBit(st1.bw, FALSE)]
        IN  IF w >= h /\ (w \div 2) >= params.minBlock
            THEN LET w1 == w \div 2
                     w2 == w - w1
                     a == encodeRegion(x, y, w1, h, params, leafLocal, pattern, st2)
                 IN  IF a.err # "" THEN a
                     ELSE encodeRegion(x + w1, y, w2, h, params, leafLocal, pattern, a)
            ELSE LET h1 == h \div 2
                     h2 == h - h1
                 IN  IF h1 < params.minBlock
                     THEN [st2 EXCEPT !.err = "encodeRegion: inconsistent pattern/geometry"]
                     ELSE LET a == encodeRegion(x, y, w, h1, params, leafLocal, pattern, st2)
                          IN  IF a.err # "" THEN a
                              ELSE encodeRegion(x, y + h1, w, h2, params, leafLocal, pattern, a)

\* (a slip: the writer is flushed after every stripe)
RECURSIVE encodeStripesFlushEach(_, _, _, _, _, _, _)
encodeStripesFlushEach(stripes, k, w, params, leafLocal, pattern, st) ==
    IF k > Len(stripes) \/ st.err # "" THEN st
    ELSE encodeStripesFlushEach(stripes, k + 1, w, params, leafLocal, pattern,
                                [encodeRegion(0, stripes[k].y, w, stripes[k].h, params,
                                              leafLocal, pattern, st)
                                    EXCEPT !.bw = Flush(@)])

\* the loop of Encode over the stripes
RECURSIVE encodeStripes(_, _, _, _, _, _, _)
encodeStripes(stripes, k, w, params, leafLocal, pattern, st) ==
    IF k > Len(stripes) \/ st.err # "" THEN st
    ELSE encodeStripes(stripes, k + 1, w, params, leafLocal, pattern,
                       encodeRegion(0, stripes[k].y, w, stripes[k].h, params,
                                    leafLocal, pattern, st))

(***************************************************************************)
(* Bitstream Decoder: decodeRegionJobs.                                    *)
(* st = [br, leafCounter, jobs, err].                                      *)
(***************************************************************************)
\* (a slip: the local index is not checked against the palette size)
decodeLeafJobNoLocalCheck(x, y, w, h, palettes, st) ==
    LET rb == ReadByte(st.br)
        palID == st.leafCounter \div PalGroup
    IN  IF rb.err # "" THEN [st EXCEPT !.br = rb.br, !.err = rb.err]
        ELSE IF palID < 0 \/ palID >= Len(palettes)
        THEN [st EXCEPT !.br = rb.br, !.err = "decodeRegionJobs: palette id out of range"]
        ELSE [br |-> rb.br,
              leafCounter |-> st.leafCounter + 1,
              jobs |-> Append(st.jobs, [x |-> x, y |-> y, w |-> w, h |-> h,
                                        pal |-> palID, idx |-> rb.v]),
              err |-> ""]

\* (a slip: the palette id is not checked against the palette table)
decodeLeafJobNoPalCheck(x, y, w, h, palettes, st) ==
    LET rb == ReadByte(st.br)
        palID == st.leafCounter \div PalGroup
        local == rb.v
    IN  IF rb.err # "" THEN [st EXCEPT !.br = rb.br, !.err = rb.err]
        ELSE IF palID < Len(palettes) /\ local >= Len(palettes[palID + 1])
        THEN [st EXCEPT !.br = rb.br, !.err = "decodeRegionJobs: local color index out of range"]
        ELSE [br |-> rb.br,
              leafCounter |-> st.leafCounter + 1,
              jobs |-> Append(st.jobs, [x |-> x, y |-> y, w |-> w, h |-> h,
                                        pal |-> palID, idx |-> local]),
              err |-> ""]

\* (a slip: the palette changes one leaf early)
decodeLeafJobNextPal(x, y, w, h, palettes, st) ==
    LET rb == ReadByte(st.br)
        palID == (st.leafCounter + 1) \div PalGroup
        local == rb.v
    IN  IF rb.err # "" THEN [st EXCEPT !.br = rb.br, !.err = rb.err]
        ELSE IF palID < 0 \/ palID >= Len(palettes)
        THEN [st EXCEPT !.br = rb.br, !.err = "decodeRegionJobs: palette id out of range"]
        ELSE IF local < 0 \/ local >= Len(palettes[palID + 1])
        THEN [st EXCEPT !.br = rb.br, !.err = "decodeRegionJobs: local color index out of range"]
        ELSE [br |-> rb.br,
              leafCounter |-> st.leafCounter + 1,
              jobs |-> Append(st.jobs, [x |-> x, y |-> y, w |-> w, h |-> h,
                                        pal |-> palID, idx |-> local]),
              err |-> ""]

\* the leaf body of decodeRegionJobs (also its fallback branch)
decodeLeafJob(x, y, w, h, palettes, st) ==
    LET rb == ReadByte(st.br)
        palID == st.leafCounter \div PalGroup
        local == rb.v
    IN  IF rb.err # "" THEN [st EXCEPT !.br = rb.br, !.err = rb.err]
        ELSE IF palID < 0 \/ palID >= Len(palettes)
        THEN [st EXCEPT !.br = rb.br, !.err = "decodeRegionJobs: palette id out of range"]
        ELSE IF local < 0 \/ local >= Len(palettes[palID + 1])
        THEN [st EXCEPT !.br = rb.br, !.err = "decodeRegionJobs: local color index out of range"]
        ELSE [br |-> rb.br,
              leafCounter |-> st.leafCounter + 1,
              jobs |-> Append(st.jobs, [x |-> x, y |-> y, w |-> w, h |-> h,
                                        pal |-> palID, idx |-> local]),
              err |-> ""]

\* (a slip: a region that cannot be split is an error, as in encodeRegion)
RECURSIVE decodeRegionJobsStrict(_, _, _, _, _, _, _)
decodeRegionJobsStrict(x, y, w, h, params, palettes, st) ==
    LET r == ReadBit(st.br)
        st1 == [st EXCEPT !.br = r.br]
    IN  IF r.err # "" THEN [st1 EXCEPT !.err = r.err]
        ELSE IF r.v = 1 THEN decodeLeafJob(x, y, w, h, palettes, st1)
        ELSE IF w >= h /\ (w \div 2) >= params.minBlock
        THEN LET w1 == w \div 2
                 w2 == w - w1
                 a == decodeRegionJobsStrict(x, y, w1, h, params, palettes, st1)
             IN  IF a.err # "" THEN a
                 ELSE decodeRegionJobsStrict(x + w1, y, w2, h, params, palettes, a)
        ELSE LET h1 == h \div 2
                 h2 == h - h1
             IN  IF h1 <= 0
                 THEN [st1 EXCEPT !.err = "decodeRegionJobs: inconsistent pattern/geometry"]
                 ELSE LET a == decodeRegionJobsStrict(x, y, w, h1, params, palettes, st1)
                      IN  IF a.err # "" THEN a
                          ELSE decodeRegionJobsStrict(x, y + h1, w, h2, params, palettes, a)

RECURSIVE decodeRegionJobs(_, _, _, _, _, _, _)
decodeRegionJobs(x, y, w, h, params, palettes, st) ==
    LET r == ReadBit(st.br)
        st1 == [st EXCEPT !.br = r.br]
    IN  IF r.err # "" THEN [st1 EXCEPT !.err = r.err]
        ELSE IF r.v = 1 THEN decodeLeafJob(x, y, w, h, palettes, st1)
        ELSE IF w >= h /\ (w \div 2) >= params.minBlock
        THEN LET w1 == w \div 2
                 w2 == w - w1
                 a == decodeRegionJobs(x, y, w1, h, params, palettes, st1)
             IN  IF a.err # "" THEN a
                 ELSE decodeRegionJobs(x + w1, y, w2, h, params, palettes, a)
        ELSE LET h1 == h \div 2
                 h2 == h - h1
             IN  IF h1 <= 0 THEN decodeLeafJob(x, y, w, h, palettes, st1)
                 ELSE LET a == decodeRegionJobs(x, y, w, h1, params, palettes, st1)
                      IN  IF a.err # "" THEN a
                          ELSE decodeRegionJobs(x, y + h1, w, h2, params, palettes, a)

\* the loop of Decode over the stripes
RECURSIVE decodeStripes(_, _, _, _, _, _)
decodeStripes(stripes, k, w, params, palettes, st) ==
    IF k > Len(stripes) \/ st.err # "" THEN st
    ELSE decodeStripes(stripes, k + 1, w, params, palettes,
                       decodeRegionJobs(0, stripes[k].y, w, stripes[k].h, params,
                                        palettes, st))

(***************************************************************************)
(* Painting phase and Edge Smoother.                                       *)
(***************************************************************************)
\* image.NewRGBA: every pixel zero
NewRGBA(w, h) ==
    [w |-> w, h |-> h,
     pix |-> [p \in (0..(w - 1)) \X (0..(h - 1)) |-> RGB(0, 0, 0)]]

InRect(job, p) ==
    /\ job.x <= p[1] /\ p[1] < job.x + job.w
    /\ job.y <= p[2] /\ p[2] < job.y + job.h

\* a paint worker's loop over its chunk jobs[from..to] (TLA+ indices): a
\* pixel ends with the colour of the last job of the chunk that covers it
paintJobs(dst, palettes, jobs, from, to) ==
    [dst EXCEPT !.pix = [p \in DOMAIN dst.pix |->
        LET hits == {k \in from..to : InRect(jobs[k], p)}
        IN  IF hits = {} THEN dst.pix[p]
            ELSE LET job == jobs[SetMax(hits)]
                 IN  palettes[job.pal + 1][job.idx + 1]]]

\* (a slip: the chunk size is rounded down)
paintChunksFloor(nJobs, numCPU) ==
    IF nJobs = 0 THEN <<>>
    ELSE LET w0 == IF numCPU < 1 THEN 1 ELSE numCPU
             workers == IF nJobs < w0 THEN nJobs ELSE w0
             chunk == nJobs \div workers
             started == {wIdx \in 0..(workers - 1) : wIdx * chunk < nJobs}
         IN  [k \in 1..Cardinality(started) |->
                 [start |-> (k - 1) * chunk,
                  end   |-> Min((k - 1) * chunk + chunk, nJobs)]]

\* the chunks paintLeafJobsParallel hands to its workers, as Go ranges
\* [start, end) over the job list
paintChunks(nJobs, numCPU) ==
    IF nJobs = 0 THEN <<>>
    ELSE LET w0 == IF numCPU < 1 THEN 1 ELSE numCPU
             workers == IF nJobs < w0 THEN nJobs ELSE w0
             chunk == (nJobs + workers - 1) \div workers
             started == {wIdx \in 0..(workers - 1) : wIdx * chunk < nJobs}
         IN  [k \in 1..Cardinality(started) |->
                 [start |-> (k - 1) * chunk,
                  end   |-> Min((k - 1) * chunk + chunk, nJobs)]]

\* the up to 8 in-bounds neighbours of (x, y)
Neighbours(src, x, y) ==
    {p \in {<<x - 1, y>>, <<x + 1, y>>, <<x, y - 1>>, <<x, y + 1>>,
            <<x - 1, y - 1>>, <<x + 1, y - 1>>, <<x - 1, y + 1>>, <<x + 1, y + 1>>} :
        InBounds(src, p[1], p[2])}

RECURSIVE SumOver(_, _, _)
SumOver(S, pix, ch) ==
    IF S = {} THEN 0
    ELSE LET p == CHOOSE q \in S : TRUE
         IN  (IF ch = "R" THEN pix[p].R ELSE IF ch = "G" THEN pix[p].G ELSE pix[p].B)
             + SumOver(S \ {p}, pix, ch)

\* uint8(c*(1-alpha) + (sum/n)*alpha + 0.5) with alpha = a10/10, in exact
\* arithmetic
blend(c, sum, n, a10) == ((2 * (c * (10 - a10) * n + sum * a10)) + 10 * n) \div (20 * n)

\* (a slip: a pixel is an edge from a luma step above tol, not 2 * tol)
smoothPixelTight(src, x, y, tol) ==
    LET c == src.pix[<<x, y>>]
        lc == luma(c)
        N == Neighbours(src, x, y)
        dls == {Abs(luma(src.pix[p]) - lc) : p \in N}
        edge == \E dl \in dls : dl > tol
        maxDl == IF dls = {} THEN 0 ELSE SetMax(dls)
        nCount == Cardinality(N)
        a10 == IF maxDl < tol * 3 THEN 4 ELSE IF maxDl < tol * 5 THEN 3 ELSE 1
    IN  IF ~edge \/ nCount = 0 THEN c
        ELSE RGB(blend(c.R, SumOver(N, src.pix, "R"), nCount, a10),
                 blend(c.G, SumOver(N, src.pix, "G"), nCount, a10),
                 blend(c.B, SumOver(N, src.pix, "B"), nCount, a10))

smoothPixel(src, x, y, tol) ==
    LET c == src.pix[<<x, y>>]
        lc == luma(c)
        N == Neighbours(src, x, y)
        dls == {Abs(luma(src.pix[p]) - lc) : p \in N}
        edge == \E dl \in dls : dl > tol * 2
        maxDl == IF dls = {} THEN 0 ELSE SetMax(dls)
        nCount == Cardinality(N)
        a10 == IF maxDl < tol * 3 THEN 4 ELSE IF maxDl < tol * 5 THEN 3 ELSE 1
    IN  IF ~edge \/ nCount = 0 THEN c
        ELSE RGB(blend(c.R, SumOver(N, src.pix, "R"), nCount, a10),
                 blend(c.G, SumOver(N, src.pix, "G"), nCount, a10),
                 blend(c.B, SumOver(N, src.pix, "B"), nCount, a10))

smoothEdges(src, tol) ==
    [src EXCEPT !.pix = [p \in DOMAIN src.pix |-> smoothPixel(src, p[1], p[2], tol)]]

(***************************************************************************)
(* The byte-stream compressor (zstd, an external library) as a             *)
(* deterministic framing: frame magic, the payload, a one-byte checksum.   *)
(* An empty stream decompresses to nothing; a damaged frame is an error.   *)
(***************************************************************************)
zstdMagic == <<40, 181, 47, 253>>

zstdWrite(raw) == zstdMagic \o raw \o <<SumSeq(raw) % 256>>

zstdReadAll(frame) ==
    IF frame = <<>> THEN [plain |-> <<>>, err |-> ""]
    ELSE IF Len(frame) < 5 \/ SubSeq(frame, 1, 4) # zstdMagic
    THEN [plain |-> <<>>, err |-> "zstd: invalid input"]
    ELSE LET body == SubSeq(frame, 5, Len(frame) - 1)
         IN  IF SumSeq(body) % 256 # frame[Len(frame)]
             THEN [plain |-> <<>>, err |-> "zstd: checksum mismatch"]
             ELSE [plain |-> body, err |-> ""]

(***************************************************************************)
(* Pieces of Encode and Decode.                                            *)
(***************************************************************************)
\* big-endian uint16
BE16(v) == <<(v % 65536) \div 256, v % 256>>

\* (a slip: the height is written before the width)
encodeHeaderHW(img, q) == magicCodec2 \o BE16(img.h) \o BE16(img.w) \o <<clampQuality(q) % 256>>

\* magic(4) + width(uint16) + height(uint16) + quality(uint8)
encodeHeader(img, q) == magicCodec2 \o BE16(img.w) \o BE16(img.h) \o <<clampQuality(q) % 256>>

\* largest palette Encode accepts
PalWriteMax == 255

paletteBytes(p) ==
    <<Len(p) % 256>> \o Flatten([j \in 1..Len(p) |-> <<p[j].R, p[j].G, p[j].B>>])

\* the palette section of the raw payload: [raw, err]
RECURSIVE writePalettes(_, _, _)
writePalettes(pals, k, raw) ==
    IF k > Len(pals) THEN [raw |-> raw, err |-> ""]
    ELSE IF Len(pals[k]) > PalWriteMax
    THEN [raw |-> raw, err |-> "_encode: palette size exceeds 255"]
    ELSE writePalettes(pals, k + 1, raw \o paletteBytes(pals[k]))

\* Decode's palette loop over plain, from Go offset off: [palettes, off, err]
\* sz colours from Go offset off; io.ReadFull gives EOF when no byte is
\* left and unexpected EOF when 1 or 2 are
readColors(plain, off, sz) ==
    LET avail == (Len(plain) - off) \div 3
    IN  IF avail >= sz
        THEN [colors |-> [j \in 1..sz |-> RGB(plain[off + 3 * (j - 1) + 1],
                                                plain[off + 3 * (j - 1) + 2],
                                                plain[off + 3 * (j - 1) + 3])],
              off |-> off + 3 * sz, err |-> ""]
        ELSE IF off + 3 * avail >= Len(plain)
        THEN [colors |-> <<>>, off |-> Len(plain), err |-> ErrEOF]
        ELSE [colors |-> <<>>, off |-> Len(plain), err |-> ErrUnexpectedEOF]

RECURSIVE readPalettes(_, _, _, _)
readPalettes(plain, off, numPalettes, acc) ==
    IF Len(acc) >= numPalettes THEN [palettes |-> acc, off |-> off, err |-> ""]
    ELSE IF off >= Len(plain) THEN [palettes |-> acc, off |-> off, err |-> ErrEOF]
    ELSE LET r == readColors(plain, off + 1, plain[off + 1])
         IN  IF r.err # "" THEN [palettes |-> acc, off |-> r.off, err |-> r.err]
             ELSE readPalettes(plain, r.off, numPalettes, Append(acc, r.colors))

(***************************************************************************)
(* Inputs.                                                                 *)
(***************************************************************************)
\* two colours 3 luma steps apart: one leaf at quality 1 and 50, split at
\* quality 100; one palette entry at quality 1, two at quality 50 and 100
Colors == {RGB(200, 100, 50), RGB(210, 100, 50)}

Qualities == {1, 50, 100}

Dims == {d \in (0..MaxArea) \X (0..MaxArea) : d[1] * d[2] <= MaxArea}

SmallRasters ==
    UNION {{[w |-> d[1], h |-> d[2], pix |-> f] :
               f \in [(0..(d[1] - 1)) \X (0..(d[2] - 1)) -> Colors]} : d \in Dims}

\* one row of n pixels, neighbours far apart in luma and no two of the
\* first 256 pixels within tolerance 1 of each other
WideRaster(n) ==
    [w |-> n, h |-> 1,
     pix |-> [p \in (0..(n - 1)) \X {0} |->
                 RGB(p[1] % 256, IF p[1] % 2 = 0 THEN 0 ELSE 255, 0)]]

\* rows that fill one palette group exactly, and one leaf more
WideRasters == {WideRaster(PalGroup), WideRaster(PalGroup + 1)}

\* a raster of one colour
Solid(w, h, c) ==
    [w |-> w, h |-> h, pix |-> [p \in (0..(w - 1)) \X (0..(h - 1)) |-> c]]

\* one row of n pixels of two colours that have the same luma (124)
IsoLuma(n) ==
    [w |-> n, h |-> 1,
     pix |-> [p \in (0..(n - 1)) \X {0} |->
                 IF p[1] % 2 = 0 THEN RGB(200, 100, 50) ELSE RGB(200, 100, 44)]]

\* the 4x4 raster of RGB (200,100,50), and flat regions wider than four
\* blocks
FlatRasters == {Solid(4, 4, RGB(200, 100, 50)), Solid(1, 6, RGB(210, 100, 50)), IsoLuma(6)}

\* one row of 12 pixels: three of R 200, three of R 210, six of R 205; at
\* quality 50 its leaves are 200, 210 and 205, the last within colorTol of
\* both others
ThreeTone ==
    [w |-> 12, h |-> 1,
     pix |-> [p \in (0..11) \X {0} |->
                 RGB(IF p[1] < 3 THEN 200 ELSE IF p[1] < 6 THEN 210 ELSE 205, 100, 50)]]

\* a 4x3 raster: the outline has colour ring except for corner (0,0), the
\* two inner pixels are in1 and in2
Framed(corner, ring, in1, in2) ==
    [w |-> 4, h |-> 3,
     pix |-> [p \in (0..3) \X (0..2) |->
                 IF p = <<0, 0>> THEN corner
                 ELSE IF p = <<1, 1>> THEN in1
                 ELSE IF p = <<2, 1>> THEN in2
                 ELSE ring]]

\* lumas 124, 126, 127 for R 200, 206, 210: an outline spread of 3 around
\* an inner spread of 1, of 1 around 3, and of 3 around a flat inside
FramedRasters ==
    {Framed(RGB(200, 100, 50), RGB(210, 100, 50), RGB(206, 100, 50), RGB(210, 100, 50)),
     Framed(RGB(206, 100, 50), RGB(210, 100, 50), RGB(200, 100, 50), RGB(210, 100, 50)),
     Framed(RGB(200, 100, 50), RGB(210, 100, 50), RGB(206, 100, 50), RGB(206, 100, 50))}

Rasters == SmallRasters \cup WideRasters \cup FlatRasters \cup {ThreeTone} \cup FramedRasters

\* qualities outside [1,100], given with the rasters of at most two pixels
WildQualities == {-3, 0, 101, 306}

TinyRasters == {r \in SmallRasters : r.w * r.h <= 2}

\* bytes of the hand-made bitstreams: 0x00, 0x20, 0x40, 0x80
BitBytes == {0, 32, 64, 128}

BitStreams == UNION {[1..n -> BitBytes] : n \in 0..MaxBitBytes}

PalTables ==
    {<<>>, <<(<<>>)>>, <<(<<RGB(200, 100, 50)>>)>>,
     <<(<<RGB(200, 100, 50), RGB(210, 100, 50)>>)>>}

DecDims == {<<0, 0>>, <<1, 0>>, <<0, 1>>, <<1, 1>>, <<2, 1>>, <<1, 2>>, <<2, 2>>}

rawPayload(pals, bits) ==
    BE16(Len(pals)) \o Flatten([k \in 1..Len(pals) |-> paletteBytes(pals[k])]) \o bits

\* artifacts with a well-formed header and frame around a hand-made payload
CraftedBuffers ==
    {magicCodec2 \o BE16(d[1]) \o BE16(d[2]) \o <<50>> \o zstdWrite(rawPayload(pt, bs)) :
        d \in DecDims, pt \in PalTables, bs \in BitStreams}

\* a valid artifact of a 1x1 raster
SampleArtifact ==
    magicCodec2 \o BE16(1) \o BE16(1) \o <<50>>
        \o zstdWrite(rawPayload(<<(<<RGB(200, 100, 50)>>)>>, <<128, 0>>))

\* the sample artifact cut short, or with one byte replaced, or with a
\* quality byte above 100
DamagedBuffers ==
    {SubSeq(SampleArtifact, 1, n) : n \in 0..(Len(SampleArtifact) - 1)}
    \cup {[SampleArtifact EXCEPT ![k] = v] : k \in 1..Len(SampleArtifact), v \in {0, 49}}
    \cup {[SampleArtifact EXCEPT ![9] = v] : v \in {101, 255}}
    \cup {SubSeq([SampleArtifact EXCEPT ![k] = 49], 1, n) : k \in 1..4, n \in 4..9}

Buffers == CraftedBuffers \cup DamagedBuffers

(***************************************************************************)
(* State.                                                                  *)
(***************************************************************************)
VARIABLES
    img, quality,   \* arguments of Encode
    ncpuEnc,        \* runtime.NumCPU() (encoderStripes) where Encode runs
    ncpuDec,        \* runtime.NumCPU() (encoderStripes) where Decode runs
    pc,             \* position of the calling goroutine
    run,            \* 1 or 2: Encode is called twice on the same input
    b,              \* Encode: output buffer
    walks,          \* analysis pass: per stripe, the state of the walk
    wstatus,        \* analysis pass: per stripe worker "idle"/"running"/"done"
    spawned,        \* analysis pass: goroutines started so far
    results,        \* collectRegionColorsStriped: results[i]
    leaves, pattern, leafRects,   \* result of the analysis pass
    palst, palPos,  \* buildPalettes: [pals, refs, err] and loop index
    raw,            \* Encode: raw payload
    encRet,         \* what Encode returned
    prevRet,        \* what the first call of Encode returned
    data,           \* argument of Decode
    rpos,           \* Decode: bytes consumed from data
    dW, dH, dQ,     \* Decode: header fields read
    plain,          \* Decode: decompressed payload
    palettes,       \* Decode: parsed palettes
    br,             \* Decode: bit reader
    jobs,           \* Decode: paint jobs
    dst,            \* Decode: destination raster
    pstatus,        \* paint workers "idle"/"running"/"done"
    pspawned,       \* paint goroutines started so far
    decRet,         \* what Decode returned
    call            \* a direct call of one function of the package: its
                    \* arguments, the receiver's fields and what it returned

encVars == <<b, walks, wstatus, spawned, results, leaves, pattern, leafRects,
             palst, palPos, raw, encRet>>

decVars == <<data, rpos, dW, dH, dQ, plain, palettes, br, jobs, dst, pstatus,
             pspawned, decRet>>

\* no function of the package is called on its own
NoCall == [fn |-> "", at |-> ""]

inVars == <<img, quality, ncpuEnc, ncpuDec, call>>

vars == <<inVars, pc, run, prevRet, encVars, decVars>>

NilImage == NewRGBA(0, 0)

NoEncRet == [nil |-> TRUE, data |-> <<>>, err |-> ""]

NoDecRet == [nil |-> TRUE, img |-> NilImage, err |-> ""]

EncError(msg) == [nil |-> TRUE, data |-> <<>>, err |-> msg]

\* (a slip: the destination raster is returned along with the error)
DecErrorWithDst(msg) == [nil |-> FALSE, img |-> dst, err |-> msg]

DecError(msg) == [nil |-> TRUE, img |-> NilImage, err |-> msg]

ZeroResult == [leaves |-> <<>>, pattern |-> <<>>, rects |-> <<>>, err |-> ""]

EncLocalsInit ==
    /\ b = <<>> /\ walks = <<>> /\ wstatus = <<>> /\ spawned = 0 /\ results = <<>>
    /\ leaves = <<>> /\ pattern = <<>> /\ leafRects = <<>>
    /\ palst = [pals |-> <<>>, refs |-> <<>>, err |-> ""] /\ palPos = 0
    /\ raw = <<>> /\ encRet = NoEncRet

DecLocalsInit ==
    /\ rpos = 0 /\ dW = 0 /\ dH = 0 /\ dQ = 0 /\ plain = <<>> /\ palettes = <<>>
    /\ br = NewBitReaderFromBytes(<<>>) /\ jobs = <<>> /\ dst = NilImage
    /\ pstatus = <<>> /\ pspawned = 0 /\ decRet = NoDecRet

\* a call of Encode (followed by Decode of its artifact on the same host)
InitEncode ==
    /\ \/ img \in Rasters /\ quality \in Qualities
       \/ img \in TinyRasters /\ quality \in WildQualities
    /\ ncpuEnc \in 1..MaxWorkers /\ ncpuDec = ncpuEnc
    /\ pc = "Encode" /\ run = 1 /\ prevRet = NoEncRet
    /\ EncLocalsInit /\ data = <<>> /\ DecLocalsInit
    /\ call = NoCall

\* a call of Decode on a buffer that Encode did not produce
InitDecode ==
    /\ img = NilImage /\ quality = 50
    /\ ncpuDec \in 1..MaxWorkers /\ ncpuEnc = ncpuDec
    /\ pc = "Decode" /\ run = 0 /\ prevRet = NoEncRet
    /\ EncLocalsInit /\ data \in Buffers /\ DecLocalsInit
    /\ call = NoCall

Init == InitEncode \/ InitDecode

(***************************************************************************)
(* Encode.                                                                 *)
(***************************************************************************)
encParams == paramsForQuality(clampQuality(quality))

\* the stripes of the analysis pass and of the emission pass
encStripes == splitStripes(img.h, encParams.minBlock, ncpuEnc)

\* Encode up to the call of collectRegionColorsStriped, and that function
\* up to the choice between the sequential and the parallel path
EncodeBegin ==
    /\ pc = "Encode"
    /\ b' = encodeHeader(img, quality)
    /\ walks' = [i \in 1..Len(encStripes) |->
                    NewWalk(Region(0, encStripes[i].y, img.w, encStripes[i].h))]
    /\ wstatus' = [i \in 1..Len(encStripes) |-> "idle"]
    /\ results' = [i \in 1..Len(encStripes) |-> ZeroResult]
    /\ spawned' = 0
    /\ pc' = IF Len(encStripes) = 1 THEN "analyse_seq" ELSE "analyse_spawn"
    /\ UNCHANGED <<inVars, run, prevRet, leaves, pattern, leafRects, palst, palPos,
                   raw, encRet, decVars>>

\* state of buildPalettes on entry
buildInit(lvs) ==
    IF Len(lvs) = 0 THEN [pals |-> <<>>, refs |-> <<>>, err |-> ""] ELSE buildStart

\* single stripe: collectRegionColors runs in the calling goroutine
AnalyseSeqStep ==
    /\ pc = "analyse_seq"
    /\ walks[1].stack # <<>>
    /\ walks' = [walks EXCEPT ![1] = collectStep(img, encParams, @)]
    /\ UNCHANGED <<inVars, pc, run, prevRet, b, wstatus, spawned, results, leaves,
                   pattern, leafRects, palst, palPos, raw, encRet, decVars>>

AnalyseSeqDone ==
    /\ pc = "analyse_seq"
    /\ walks[1].stack = <<>>
    /\ leaves' = walks[1].leaves
    /\ pattern' = walks[1].pattern
    /\ leafRects' = walks[1].rects
    /\ palst' = buildInit(walks[1].leaves)
    /\ palPos' = 0
    /\ pc' = "palettes"
    /\ UNCHANGED <<inVars, run, prevRet, b, walks, wstatus, spawned, results, raw,
                   encRet, decVars>>

\* several stripes: one goroutine per stripe
SpawnWorker ==
    /\ pc = "analyse_spawn"
    /\ spawned' = spawned + 1
    /\ wstatus' = [wstatus EXCEPT ![spawned + 1] = "running"]
    /\ pc' = IF spawned + 1 = Len(wstatus) THEN "analyse_wait" ELSE "analyse_spawn"
    /\ UNCHANGED <<inVars, run, prevRet, b, walks, results, leaves, pattern,
                   leafRects, palst, palPos, raw, encRet, decVars>>

WorkerStep(i) ==
    /\ wstatus[i] = "running"
    /\ walks[i].stack # <<>>
    /\ walks' = [walks EXCEPT ![i] = collectStep(img, encParams, @)]
    /\ UNCHANGED <<inVars, pc, run, prevRet, b, wstatus, spawned, results, leaves,
                   pattern, leafRects, palst, palPos, raw, encRet, decVars>>

\* (a slip: a result goes into the first slot still empty)
storeResultFirstFree(res, i, r) ==
    [res EXCEPT ![SetMin({k \in 1..Len(res) : res[k].pattern = <<>>})] = r]

\* results[i] = stripeResult{...} of worker i (Go index)
storeResult(res, i, r) == [res EXCEPT ![i + 1] = r]

WorkerFinish(i) ==
    /\ wstatus[i] = "running"
    /\ walks[i].stack = <<>>
    /\ results' = storeResult(results, i - 1,
                              [leaves |-> walks[i].leaves, pattern |-> walks[i].pattern,
                               rects |-> walks[i].rects, err |-> ""])
    /\ wstatus' = [wstatus EXCEPT ![i] = "done"]
    /\ UNCHANGED <<inVars, pc, run, prevRet, b, walks, spawned, leaves, pattern,
                   leafRects, palst, palPos, raw, encRet, decVars>>

\* (a slip: no wait)
wgNoWait(status) == TRUE

\* wg.Wait() returns
wgWait(status) == \A i \in 1..Len(status) : status[i] = "done"

\* first error among the results, "" when there is none
firstErr(res) ==
    LET bad == {i \in 1..Len(res) : res[i].err # ""}
    IN  IF bad = {} THEN "" ELSE res[SetMin(bad)].err

JoinAnalysis ==
    /\ pc = "analyse_wait"
    /\ wgWait(wstatus)
    /\ IF firstErr(results) # ""
       THEN /\ encRet' = EncError(firstErr(results))
            /\ pc' = "encoded"
            /\ UNCHANGED <<leaves, pattern, leafRects, palst, palPos>>
       ELSE /\ leaves' = Flatten([i \in 1..Len(results) |-> results[i].leaves])
            /\ pattern' = Flatten([i \in 1..Len(results) |-> results[i].pattern])
            /\ leafRects' = Flatten([i \in 1..Len(results) |-> results[i].rects])
            /\ palst' = buildInit(leaves')
            /\ palPos' = 0
            /\ pc' = "palettes"
            /\ UNCHANGED encRet
    /\ UNCHANGED <<inVars, run, prevRet, b, walks, wstatus, spawned, results, raw,
                   decVars>>

\* one iteration of the loop of buildPalettes
PaletteStep ==
    /\ pc = "palettes"
    /\ palst.err = ""
    /\ palPos < Len(leaves)
    /\ palst' = buildStep(palst, palPos, leaves[palPos + 1], encParams)
    /\ palPos' = palPos + 1
    /\ UNCHANGED <<inVars, pc, run, prevRet, b, walks, wstatus, spawned, results,
                   leaves, pattern, leafRects, raw, encRet, decVars>>

\* buildPalettes returns; Encode checks its error
PaletteDone ==
    /\ pc = "palettes"
    /\ palst.err # "" \/ palPos >= Len(leaves)
    /\ IF palst.err # ""
       THEN encRet' = EncError(palst.err) /\ pc' = "encoded"
       ELSE encRet' = encRet /\ pc' = "write_palettes"
    /\ UNCHANGED <<inVars, run, prevRet, b, walks, wstatus, spawned, results, leaves,
                   pattern, leafRects, palst, palPos, raw, decVars>>

\* Encode writes the palette count and the palettes into raw
WritePalettes ==
    /\ pc = "write_palettes"
    /\ LET r == writePalettes(palst.pals, 1, BE16(Len(palst.pals)))
       IN  IF r.err # ""
           THEN encRet' = EncError(r.err) /\ pc' = "encoded" /\ raw' = raw
           ELSE encRet' = encRet /\ pc' = "emit" /\ raw' = r.raw
    /\ UNCHANGED <<inVars, run, prevRet, b, walks, wstatus, spawned, results, leaves,
                   pattern, leafRects, palst, palPos, decVars>>

\* second pass of Encode: the tree, Flush, compression, return
emitTree(w, stripes, params, refs, pat, raw0) ==
    encodeStripes(stripes, 1, w, params, [i \in 1..Len(refs) |-> refs[i].idx], pat,
                  [bw |-> NewBitWriter(raw0), leafPos |-> 0, patPos |-> 0, err |-> ""])

EmitTree ==
    /\ pc = "emit"
    /\ LET st == emitTree(img.w % 65536,
                          splitStripes(img.h % 65536, encParams.minBlock, ncpuEnc),
                          encParams, palst.refs, pattern, raw)
       IN  IF st.err # ""
           THEN encRet' = EncError(st.err) /\ raw' = raw /\ b' = b
           ELSE /\ raw' = Flush(st.bw).buf
                /\ b' = b \o zstdWrite(raw')
                /\ encRet' = [nil |-> FALSE, data |-> b', err |-> ""]
    /\ pc' = "encoded"
    /\ UNCHANGED <<inVars, run, prevRet, walks, wstatus, spawned, results, leaves,
                   pattern, leafRects, palst, palPos, decVars>>

\* the caller encodes the same raster with the same quality once more
EncodeAgain ==
    /\ pc = "encoded" /\ run = 1
    /\ prevRet' = encRet
    /\ run' = 2
    /\ pc' = "Encode"
    /\ b' = <<>> /\ walks' = <<>> /\ wstatus' = <<>> /\ spawned' = 0
    /\ results' = <<>> /\ leaves' = <<>> /\ pattern' = <<>> /\ leafRects' = <<>>
    /\ palst' = [pals |-> <<>>, refs |-> <<>>, err |-> ""] /\ palPos' = 0
    /\ raw' = <<>> /\ encRet' = NoEncRet
    /\ UNCHANGED <<inVars, decVars>>

\* the artifact is handed to Decode on a host with any number of CPUs
Transmit ==
    /\ pc = "encoded" /\ run = 2
    /\ ~encRet.nil
    /\ data' = encRet.data
    /\ ncpuDec' \in 1..MaxWorkers
    /\ pc' = "Decode"
    /\ UNCHANGED <<img, quality, ncpuEnc, call, run, prevRet, encVars, rpos, dW, dH, dQ,
                   plain, palettes, br, jobs, dst, pstatus, pspawned, decRet>>

(***************************************************************************)
(* Decode.                                                                 *)
(***************************************************************************)
decParams == paramsForQuality(dQ)

\* r.Read(magic): up to 4 bytes into a zeroed buffer; EOF only when no byte
\* is left
readMagic(buf) ==
    IF Len(buf) = 0 THEN [magic |-> <<0, 0, 0, 0>>, n |-> 0, err |-> ErrEOF]
    ELSE [magic |-> [k \in 1..4 |-> IF k <= Len(buf) THEN buf[k] ELSE 0],
          n |-> Min(4, Len(buf)), err |-> ""]

\* (a slip: only the first three bytes are compared)
checkMagicPrefix(buf) ==
    LET r == readMagic(buf)
    IN  IF r.err # "" THEN r.err
        ELSE IF SubSeq(r.magic, 1, 3) # SubSeq(magicCodec2, 1, 3) THEN ErrInvalidMagic
        ELSE ""

\* the verdict of Decode on the magic tag: "" = accepted
checkMagic(buf) ==
    LET r == readMagic(buf)
    IN  IF r.err # "" THEN r.err
        ELSE IF r.magic # magicCodec2 THEN ErrInvalidMagic
        ELSE ""

DecodeMagic ==
    /\ pc = "Decode"
    /\ rpos' = readMagic(data).n
    /\ IF checkMagic(data) # ""
       THEN decRet' = DecError(checkMagic(data)) /\ pc' = "decoded"
       ELSE decRet' = decRet /\ pc' = "dec_fields"
    /\ UNCHANGED <<inVars, run, prevRet, encVars, data, dW, dH, dQ, plain, palettes,
                   br, jobs, dst, pstatus, pspawned>>

\* binary.Read of a big-endian uint16 at Go offset off: [v, off, err]
readU16(buf, off) ==
    IF off >= Len(buf) THEN [v |-> 0, off |-> off, err |-> ErrEOF]
    ELSE IF off + 1 >= Len(buf) THEN [v |-> 0, off |-> Len(buf), err |-> ErrUnexpectedEOF]
    ELSE [v |-> buf[off + 1] * 256 + buf[off + 2], off |-> off + 2, err |-> ""]

\* width, height, quality; then the destination raster is allocated
DecodeFields ==
    /\ pc = "dec_fields"
    /\ LET rw == readU16(data, rpos)
           rh == readU16(data, rw.off)
       IN  IF rw.err # ""
           THEN /\ decRet' = DecError(rw.err) /\ pc' = "decoded" /\ rpos' = rw.off
                /\ UNCHANGED <<dW, dH, dQ, dst>>
           ELSE IF rh.err # ""
           THEN /\ decRet' = DecError(rh.err) /\ pc' = "decoded" /\ rpos' = rh.off
                /\ UNCHANGED <<dW, dH, dQ, dst>>
           ELSE IF rh.off >= Len(data)
           THEN /\ decRet' = DecError(ErrEOF) /\ pc' = "decoded" /\ rpos' = rh.off
                /\ UNCHANGED <<dW, dH, dQ, dst>>
           ELSE /\ dW' = rw.v /\ dH' = rh.v
                /\ dQ' = clampQuality(data[rh.off + 1])
                /\ rpos' = rh.off + 1
                /\ dst' = NewRGBA(rw.v, rh.v)
                /\ decRet' = decRet /\ pc' = "dec_zstd"
    /\ UNCHANGED <<inVars, run, prevRet, encVars, data, plain, palettes, br, jobs,
                   pstatus, pspawned>>

DecodeDecompress ==
    /\ pc = "dec_zstd"
    /\ LET r == zstdReadAll(SubSeq(data, rpos + 1, Len(data)))
       IN  /\ rpos' = Len(data)
           /\ IF r.err # ""
              THEN decRet' = DecError(r.err) /\ pc' = "decoded" /\ plain' = plain
              ELSE IF Len(r.plain) < 2
              THEN /\ decRet' = DecError("codec2: truncated payload (no palette)")
                   /\ pc' = "decoded" /\ plain' = r.plain
              ELSE decRet' = decRet /\ pc' = "dec_palettes" /\ plain' = r.plain
    /\ UNCHANGED <<inVars, run, prevRet, encVars, data, dW, dH, dQ, palettes, br,
                   jobs, dst, pstatus, pspawned>>

DecodePalettes ==
    /\ pc = "dec_palettes"
    /\ LET numPalettes == plain[1] * 256 + plain[2]
           r == readPalettes(plain, 2, numPalettes, <<>>)
       IN  IF r.err # ""
           THEN /\ decRet' = DecError(r.err) /\ pc' = "decoded"
                /\ UNCHANGED <<palettes, br>>
           ELSE /\ palettes' = r.palettes
                /\ br' = NewBitReaderFromBytes(SubSeq(plain, r.off + 1, Len(plain)))
                /\ decRet' = decRet /\ pc' = "dec_tree"
    /\ UNCHANGED <<inVars, run, prevRet, encVars, data, rpos, dW, dH, dQ, plain,
                   jobs, dst, pstatus, pspawned>>

\* first stage of Decode: the tree of every stripe, read sequentially
parseTree(w, h, params, ncpu, pals, reader) ==
    decodeStripes(splitStripes(h, params.minBlock, ncpu), 1, w, params, pals,
                  [br |-> reader, leafCounter |-> 0, jobs |-> <<>>, err |-> ""])

DecodeTree ==
    /\ pc = "dec_tree"
    /\ LET st == parseTree(dW, dH, decParams, ncpuDec, palettes, br)
       IN  /\ br' = st.br
           /\ jobs' = st.jobs
           /\ IF st.err # ""
              THEN /\ decRet' = DecError(st.err) /\ pc' = "decoded"
                   /\ UNCHANGED pstatus
              ELSE /\ pstatus' = [k \in 1..Len(paintChunks(Len(st.jobs), ncpuDec)) |-> "idle"]
                   /\ decRet' = decRet
                   /\ pc' = IF Len(st.jobs) = 0 THEN "smooth" ELSE "paint_spawn"
    /\ UNCHANGED <<inVars, run, prevRet, encVars, data, rpos, dW, dH, dQ, plain,
                   palettes, dst, pspawned>>

\* paintLeafJobsParallel starts one goroutine per chunk
PaintSpawn ==
    /\ pc = "paint_spawn"
    /\ pspawned' = pspawned + 1
    /\ pstatus' = [pstatus EXCEPT ![pspawned + 1] = "running"]
    /\ pc' = IF pspawned + 1 = Len(pstatus) THEN "paint_wait" ELSE "paint_spawn"
    /\ UNCHANGED <<inVars, run, prevRet, encVars, data, rpos, dW, dH, dQ, plain,
                   palettes, br, jobs, dst, decRet>>

\* a paint goroutine fills the rectangles of its chunk
PaintWorker(k) ==
    /\ pstatus[k] = "running"
    /\ LET c == paintChunks(Len(jobs), ncpuDec)[k]
       IN  dst' = paintJobs(dst, palettes, jobs, c.start + 1, c.end)
    /\ pstatus' = [pstatus EXCEPT ![k] = "done"]
    /\ UNCHANGED <<inVars, pc, run, prevRet, encVars, data, rpos, dW, dH, dQ, plain,
                   palettes, br, jobs, pspawned, decRet>>

PaintJoin ==
    /\ pc = "paint_wait"
    /\ wgWait(pstatus)
    /\ pc' = "smooth"
    /\ UNCHANGED <<inVars, run, prevRet, encVars, decVars>>

\* smoothEdges and the return of Decode
SmoothReturn ==
    /\ pc = "smooth"
    /\ decRet' = [nil |-> FALSE, img |-> smoothEdges(dst, decParams.maxGrad), err |-> ""]
    /\ pc' = "decoded"
    /\ UNCHANGED <<inVars, run, prevRet, encVars, data, rpos, dW, dH, dQ, plain,
                   palettes, br, jobs, dst, pstatus, pspawned>>

Next ==
    \/ EncodeBegin
    \/ AnalyseSeqStep
    \/ AnalyseSeqDone
    \/ SpawnWorker
    \/ \E i \in 1..Len(wstatus) : WorkerStep(i)
    \/ \E i \in 1..Len(wstatus) : WorkerFinish(i)
    \/ JoinAnalysis
    \/ PaletteStep
    \/ PaletteDone
    \/ WritePalettes
    \/ EmitTree
    \/ EncodeAgain
    \/ Transmit
    \/ DecodeMagic
    \/ DecodeFields
    \/ DecodeDecompress
    \/ DecodePalettes
    \/ DecodeTree
    \/ PaintSpawn
    \/ \E k \in 1..Len(pstatus) : PaintWorker(k)
    \/ PaintJoin
    \/ SmoothReturn

Spec == Init /\ [][Next]_vars

\* the analysis of a stripe by goroutine i
Worker(i) == i <= Len(wstatus) /\ (WorkerStep(i) \/ WorkerFinish(i))

\* the analysis phase as the Go runtime runs it: the calling goroutine goes
\* on while it can, and every stripe goroutine that can run is scheduled
\* (over the rasters of at most MaxArea pixels)
InitSmall == InitEncode /\ img \in SmallRasters

FairSpec ==
    /\ InitSmall /\ [][Next]_vars
    /\ WF_vars(AnalyseSeqStep \/ AnalyseSeqDone \/ SpawnWorker \/ JoinAnalysis)
    /\ \A i \in 1..MaxWorkers : WF_vars(Worker(i))

(***************************************************************************)
(* Properties.                                                             *)
(***************************************************************************)
Analysed == pc \in {"palettes", "write_palettes", "emit", "encoded"}

Painting == pc \in {"paint_spawn", "paint_wait", "smooth"}

\* Decode got through the bitstream of every stripe
Parsed == Painting \/ (pc = "decoded" /\ ~decRet.nil)

Pixels(w, h) == (0..(w - 1)) \X (0..(h - 1))

\* C1: for a raster with sides in 0..65535 and a quality in 1..100, Encode
\* returns an artifact and no error, and Decode of the artifact on a host
\* with the same worker count returns a raster of the same width and height
C1_RoundTrip ==
    /\ (pc = "encoded" /\ quality \in 1..100) => (~encRet.nil /\ encRet.err = "")
    /\ (pc = "decoded" /\ run = 2 /\ quality \in 1..100 /\ ncpuDec = ncpuEnc) =>
          /\ ~decRet.nil /\ decRet.err = ""
          /\ decRet.img.w = img.w /\ decRet.img.h = img.h

\* C2: the second call of Encode on the same raster, quality and worker
\* count returns what the first call returned, byte for byte, however the
\* stripe workers of the two calls were scheduled
C2_Deterministic ==
    (pc = "encoded" /\ run = 2) => (encRet = prevRet)

C2_Witness ==
    /\ pc = "encoded" /\ run = 2 /\ ~encRet.nil
    /\ Len(results) >= 2 /\ results[1] # results[2]

\* C3: a buffer of 4 bytes or more whose first 4 bytes are not "BAB2" makes
\* Decode return the invalid-magic error after consuming those 4 bytes only:
\* no header field read, nothing decompressed, no palette, no bit, no job
C3_InvalidMagicFirst ==
    (Len(data) >= 4 /\ SubSeq(data, 1, 4) # magicCodec2) =>
        /\ pc \in {"Decode", "decoded"}
        /\ pc = "decoded" =>
              /\ decRet = [nil |-> TRUE, img |-> NilImage, err |-> ErrInvalidMagic]
              /\ rpos = 4 /\ dW = 0 /\ dH = 0 /\ dQ = 0 /\ dst = NilImage
              /\ plain = <<>> /\ palettes = <<>> /\ jobs = <<>>
              /\ br = NewBitReaderFromBytes(<<>>)

C3_Witness ==
    /\ pc = "decoded" /\ Len(data) > 9
    /\ SubSeq(data, 1, 3) = SubSeq(magicCodec2, 1, 3) /\ data[4] # magicCodec2[4]
    /\ decRet.err = ErrInvalidMagic

\* C4: Encode and Decode return either a result and no error, or one error
\* and no result; a failed Decode returns no raster, a successful one a
\* raster of the header's size painted by all its workers
C4_NoPartialSuccess ==
    /\ pc = "encoded" =>
          \/ encRet.nil /\ encRet.err # "" /\ encRet.data = <<>>
          \/ ~encRet.nil /\ encRet.err = "" /\ Len(encRet.data) >= 9
    /\ pc = "decoded" =>
          \/ decRet.nil /\ decRet.err # "" /\ decRet.img = NilImage
          \/ /\ ~decRet.nil /\ decRet.err = ""
             /\ decRet.img.w = dW /\ decRet.img.h = dH
             /\ wgWait(pstatus)
             /\ \A p \in Pixels(dW, dH) : \E k \in 1..Len(jobs) : InRect(jobs[k], p)

C4_Witness ==
    /\ pc = "decoded" /\ decRet.err # ""
    /\ Len(jobs) >= 1 /\ dW >= 1 /\ dH >= 1

\* number of bits a bit reader has consumed
bitsRead(r) == IF r.nbit = 0 THEN r.pos * 8 ELSE (r.pos - 1) * 8 + r.nbit

\* bit j (from 0, most significant first) of a byte sequence
streamBit(bytes, j) == BitAt(bytes[(j \div 8) + 1], 7 - (j % 8))

\* the value of the 8 bits a bit reader consumed last
lastByteRead(r) ==
    SumSeq([i \in 1..8 |-> streamBit(r.data, bitsRead(r) - 9 + i) * Pow2(8 - i)])

\* C5: the bitstream stage of Decode ends in one of four ways.  It succeeds,
\* and then job k has palette (k-1)/256 below the number of palettes and a
\* local index below the size of that palette, and the jobs cover the
\* raster; or it fails with a palette error, the next leaf's palette index
\* being out of range; or with a local-index error, the index just read
\* being out of range; or with EOF, the bit reader being exhausted
C5_TreeErrors ==
    [][(pc = "dec_tree" /\ pc' # "dec_tree") =>
        \/ /\ pc' # "decoded"
           /\ \A k \in 1..Len(jobs') :
                 /\ jobs'[k].pal = (k - 1) \div 256
                 /\ jobs'[k].pal < Len(palettes)
                 /\ jobs'[k].idx < Len(palettes[jobs'[k].pal + 1])
           /\ \A p \in Pixels(dW, dH) : \E k \in 1..Len(jobs') : InRect(jobs'[k], p)
        \/ /\ pc' = "decoded" /\ decRet'.nil
           /\ decRet'.err = "decodeRegionJobs: palette id out of range"
           /\ Len(jobs') \div 256 >= Len(palettes)
        \/ /\ pc' = "decoded" /\ decRet'.nil
           /\ decRet'.err = "decodeRegionJobs: local color index out of range"
           /\ Len(jobs') \div 256 < Len(palettes)
           /\ lastByteRead(br') >= Len(palettes[(Len(jobs') \div 256) + 1])
        \/ /\ pc' = "decoded" /\ decRet'.nil
           /\ decRet'.err = ErrEOF
           /\ br'.nbit = 0 /\ br'.pos = Len(br'.data)
    ]_vars

C5_Witness ==
    /\ pc = "decoded"
    /\ decRet.err = "decodeRegionJobs: local color index out of range"
    /\ Len(jobs) >= 1

\* C6: for a raster with W, H >= 1 the leaf rectangles of the analysis pass
\* over all stripes tile the image: every pixel lies in exactly one leaf
\* rectangle and no rectangle reaches outside the image
C6_LeafTiling ==
    (pc = "palettes" /\ palPos = 0 /\ img.w >= 1 /\ img.h >= 1) =>
        /\ \A p \in Pixels(img.w, img.h) :
              Cardinality({k \in 1..Len(leafRects) : InRect(leafRects[k], p)}) = 1
        /\ \A k \in 1..Len(leafRects) :
              /\ leafRects[k].x >= 0 /\ leafRects[k].y >= 0
              /\ leafRects[k].x + leafRects[k].w <= img.w
              /\ leafRects[k].y + leafRects[k].h <= img.h

C6_Witness ==
    /\ pc = "palettes" /\ Len(results) >= 2 /\ img.w >= 2
    /\ Len(leafRects) >= 3
    /\ \E k \in 1..Len(leafRects) : leafRects[k].w >= 2

\* C7: in buildPalettes no palette holds more than 256 entries, and every
\* LeafRef made so far names an existing palette and an entry inside it;
\* on return there is one LeafRef per leaf
C7_PaletteBound ==
    (Analysed /\ palst.err = "") =>
        /\ \A g \in 1..Len(palst.pals) : Len(palst.pals[g]) <= 256
        /\ \A i \in 1..Len(palst.refs) :
              /\ palst.refs[i].pal < Len(palst.pals)
              /\ palst.refs[i].idx < Len(palst.pals[palst.refs[i].pal + 1])
        /\ pc # "palettes" => Len(palst.refs) = Len(leaves)

C7_Witness ==
    /\ pc = "write_palettes"
    /\ Len(palst.pals) = 2 /\ Len(palst.pals[1]) = 256 /\ Len(palst.refs) = 257

area(r) == r.w * r.h

\* one step of a walk over a region with sides >= 1: the node is a leaf, or
\* it is replaced by two children with sides >= 1, each strictly smaller
\* than it, that share its area
stepShrinks(a, c) ==
    LET r == Head(a.stack)
    IN  \/ c.stack = Tail(a.stack)
        \/ /\ Len(c.stack) = Len(a.stack) + 1
           /\ SubSeq(c.stack, 3, Len(c.stack)) = Tail(a.stack)
           /\ \A k \in 1..2 :
                 /\ c.stack[k].w >= 1 /\ c.stack[k].h >= 1
                 /\ area(c.stack[k]) < area(r)
           /\ area(c.stack[1]) + area(c.stack[2]) = area(r)

\* C8: on a raster with W, H >= 1 every step of collectRegionColors either
\* closes a node as a leaf or splits it into two strictly smaller children,
\* and every analysis that has started comes to its end
C8_Terminates ==
    /\ [][\A i \in (DOMAIN walks) \cap (DOMAIN walks') :
            (walks'[i] # walks[i] /\ img.w >= 1 /\ img.h >= 1) =>
                stepShrinks(walks[i], walks'[i])]_vars
    /\ (pc \in {"analyse_seq", "analyse_spawn", "analyse_wait"}) ~> Analysed

C8_Witness ==
    /\ pc = "palettes" /\ img.w >= 1 /\ img.h >= 1
    /\ Cardinality({k \in 1..Len(pattern) : ~pattern[k]}) >= 2

\* C9: once Decode has parsed a payload, no pixel lies in the rectangles of
\* two different paint jobs, and when the paint workers are done the raster
\* is the one a single worker painting the jobs in order would give
C9_DisjointJobs ==
    /\ Parsed =>
          \A p \in Pixels(dW, dH) :
              Cardinality({k \in 1..Len(jobs) : InRect(jobs[k], p)}) <= 1
    /\ pc = "smooth" =>
          dst = paintJobs(NewRGBA(dW, dH), palettes, jobs, 1, Len(jobs))

C9_Witness ==
    /\ pc = "smooth" /\ run = 0
    /\ Len(pstatus) >= 2 /\ Len(jobs) >= 2
    /\ \E i, j \in 1..Len(jobs) : jobs[i].idx # jobs[j].idx

\* C10: after the join of the analysis phase every stripe worker has
\* finished and the joined lists hold every worker's complete result; once
\* smoothing starts every paint worker has finished
C10_Barrier ==
    /\ (Analysed /\ Len(wstatus) >= 2 /\ encRet.err = "") =>
          /\ \A i \in 1..Len(wstatus) : wstatus[i] = "done" /\ walks[i].stack = <<>>
          /\ leaves = Flatten([i \in 1..Len(walks) |-> walks[i].leaves])
          /\ pattern = Flatten([i \in 1..Len(walks) |-> walks[i].pattern])
    /\ (pc = "smooth" \/ (pc = "decoded" /\ ~decRet.nil)) =>
          \A k \in 1..Len(pstatus) : pstatus[k] = "done"

C10_Witness ==
    /\ pc = "smooth" /\ run = 2
    /\ Len(wstatus) >= 2 /\ Len(pstatus) >= 2

\* collectRegionColors run to its end on the regions of a work stack
RECURSIVE walkAll(_)
walkAll(st) ==
    IF st.stack = <<>> THEN st ELSE walkAll(collectStep(img, encParams, st))

\* one goroutine analysing stripe k, k + 1, ... in turn into the same lists
RECURSIVE seqAnalysis(_, _)
seqAnalysis(k, acc) ==
    IF k > Len(encStripes) THEN acc
    ELSE seqAnalysis(k + 1,
             walkAll([acc EXCEPT !.stack =
                 <<Region(0, encStripes[k].y, img.w, encStripes[k].h)>>]))

\* C11: whatever the order in which the stripe workers ran and finished,
\* the leaf colours and the pattern that collectRegionColorsStriped returns
\* are those of one goroutine analysing the stripes top to bottom
C11_StripeOrder ==
    (pc = "palettes" /\ palPos = 0 /\ Len(wstatus) >= 2) =>
        LET s == seqAnalysis(1, [stack |-> <<>>, leaves |-> <<>>,
                                 pattern |-> <<>>, rects |-> <<>>])
        IN  /\ leaves = s.leaves
            /\ pattern = s.pattern

C11_Witness ==
    /\ pc = "palettes" /\ palPos = 0 /\ Len(results) >= 2
    /\ results[1].pattern # results[2].pattern
    /\ results[1].leaves # results[2].leaves

\* the stripes ss partition the rows [0, H) top to bottom, none is empty,
\* and there are at most n of them and at most H / minBlock
stripesPartition(ss, H, n, minBlock) ==
    /\ Len(ss) >= 1 /\ ss[1].y = 0
    /\ \A k \in 1..(Len(ss) - 1) : ss[k + 1].y = ss[k].y + ss[k].h
    /\ ss[Len(ss)].y + ss[Len(ss)].h = H
    /\ \A k \in 1..Len(ss) : ss[k].h >= 1
    /\ Len(ss) <= n /\ Len(ss) <= H \div minBlock

\* C12: for a height H >= 1 and a worker count n >= 1 the stripes that
\* splitStripes returns, to the analysis pass and to the decoder, start at
\* row 0, follow one another without gap or overlap, end at row H, have
\* height >= 1 each, and number at most n and at most H / minBlock
C12_StripesPartition ==
    /\ (pc \in {"analyse_seq", "analyse_spawn", "analyse_wait"} /\ img.h >= 1) =>
          /\ Len(walks) = Len(encStripes)
          /\ \A k \in 1..Len(walks) :
                walks[k].stack # <<>> => walks[k].stack[Len(walks[k].stack)].y
                                            + walks[k].stack[Len(walks[k].stack)].h
                                         = encStripes[k].y + encStripes[k].h
          /\ stripesPartition(encStripes, img.h, ncpuEnc, encParams.minBlock)
    /\ (pc = "dec_tree" /\ dH >= 1) =>
          stripesPartition(splitStripes(dH, decParams.minBlock, ncpuDec),
                           dH, ncpuDec, decParams.minBlock)

\* three rows on two workers: the stripes are not of equal height
C12_Witness ==
    /\ pc = "analyse_spawn" /\ spawned = 0
    /\ img.h = 3 /\ Len(walks) = 2
    /\ encStripes[1].h # encStripes[2].h

\* C13: the stripes Decode splits the image into while it parses an
\* artifact of Encode are the stripes Encode split it into, whatever the
\* number of CPUs of the decoding host
C13_SameStripes ==
    (pc = "dec_tree" /\ run = 2) =>
        splitStripes(dH, decParams.minBlock, ncpuDec) = encStripes

\* C14: Encode called with any integer quality q goes on to the analysis
\* with min(max(q,1),100) as the header's quality byte and as the quality of
\* its parameters; Decode, once it has read a quality byte b, goes on to
\* decompress with min(max(b,1),100) as its quality
C14_QualityClamped ==
    [][/\ pc = "Encode" =>
            /\ pc' \in {"analyse_seq", "analyse_spawn"}
            /\ Len(b') = 9 /\ b'[9] = Min(Max(quality, 1), 100)
            /\ encParams = paramsForQuality(Min(Max(quality, 1), 100))
       /\ (pc = "dec_fields" /\ Len(data) >= 9) =>
            /\ pc' = "dec_zstd"
            /\ dQ' = Min(Max(data[9], 1), 100)
            /\ decParams' = paramsForQuality(Min(Max(data[9], 1), 100))
            /\ decRet' = NoDecRet
    ]_vars

\* a quality above 100 was given to Encode and Decode has read the header
C14_Witness ==
    /\ pc = "dec_zstd" /\ run = 2
    /\ quality > 100 /\ data[9] = 100 /\ dQ = 100

\* the lumas of the pixels of the raster that lie in region r
regionLumas(r) ==
    {luma(img.pix[p]) :
        p \in {q \in (r.x..(r.x + r.w - 1)) \X (r.y..(r.y + r.h - 1)) :
                  InBounds(img, q[1], q[2])}}

\* C15: when the classifier is given a region all of whose pixels have the
\* same luma, whatever its width and height, it does not split it: it
\* appends one pattern entry, true, and one leaf colour
C15_FlatIsLeaf ==
    [][\A i \in (DOMAIN walks) \cap (DOMAIN walks') :
          (/\ walks'[i] # walks[i] /\ walks[i].stack # <<>>
           /\ Cardinality(regionLumas(Head(walks[i].stack))) <= 1) =>
              /\ walks'[i].stack = Tail(walks[i].stack)
              /\ walks'[i].pattern = Append(walks[i].pattern, TRUE)
              /\ Len(walks'[i].leaves) = Len(walks[i].leaves) + 1
    ]_vars

\* the row of six pixels of two colours of equal luma came out as one leaf
C15_Witness ==
    /\ pc = "palettes" /\ palPos = 0 /\ img = IsoLuma(6)
    /\ pattern = <<TRUE>> /\ leaves = <<RGB(200, 100, 47)>>

\* the 4x4 raster filled with RGB (200,100,50), given to Encode at quality 50
Scenario4x4 == img = Solid(4, 4, RGB(200, 100, 50)) /\ quality = 50

\* C16: the 4x4 raster of RGB (200,100,50) at quality 50 comes out of the
\* analysis as exactly one leaf, one pattern entry, and Decode of the
\* artifact on a host with the same worker count makes exactly one paint
\* job, for every worker count
C16_OneLeaf ==
    Scenario4x4 =>
        /\ (Analysed /\ encRet.err = "") => (Len(leaves) = 1 /\ pattern = <<TRUE>>)
        /\ (pc = "smooth" /\ run = 2 /\ ncpuDec = ncpuEnc) => Len(jobs) = 1

\* C17: the 4x4 raster of RGB (200,100,50) at quality 50 gives exactly one
\* palette with the single entry (200,100,50), and Decode of the artifact
\* returns a 4x4 raster whose every pixel is (200,100,50)
C17_OnePalette ==
    Scenario4x4 =>
        /\ (pc \in {"write_palettes", "emit", "encoded"} /\ encRet.err = "") =>
              palst.pals = <<(<<RGB(200, 100, 50)>>)>>
        /\ (pc = "decoded" /\ run = 2) =>
              /\ ~decRet.nil /\ decRet.err = ""
              /\ decRet.img = Solid(4, 4, RGB(200, 100, 50))

\* how many of the first k pattern entries are leaves
leafOrdinal(pat, k) == Cardinality({j \in 1..k : pat[j]})

\* node := 1 + 8-bit local index | 0 node node, pattern entry by pattern
\* entry (the pattern is in pre-order), top bit of the index first
grammarBits(pat, locals) ==
    Flatten([k \in 1..Len(pat) |->
                IF pat[k]
                THEN <<1>> \o [i \in 1..8 |->
                                  (locals[leafOrdinal(pat, k)] \div (2 ^ (8 - i))) % 2]
                ELSE <<0>>])

\* C21: the emission pass appends to the palette section the bits of the
\* grammar node := 1 + 8-bit local index | 0 node node, one node per
\* pattern entry in pre-order: (number of nodes) + 8 * (number of leaves)
\* bits, then zero padding up to a whole byte
C21_WireGrammar ==
    [][(pc = "emit" /\ encRet'.err = "") =>
          LET exp == grammarBits(pattern, [i \in 1..Len(palst.refs) |-> palst.refs[i].idx])
              n == Len(exp)
              bytes == SubSeq(raw', Len(raw) + 1, Len(raw'))
          IN  /\ SubSeq(raw', 1, Len(raw)) = raw
              /\ n = Len(pattern) + 8 * Len(leaves)
              /\ Len(bytes) = (n + 7) \div 8
              /\ \A j \in 0..(Len(bytes) * 8 - 1) :
                    streamBit(bytes, j) = IF j < n THEN exp[j + 1] ELSE 0
    ]_vars

\* an emitted tree with an internal root, a leaf of local index 1 and a
\* padded last byte
C21_Witness ==
    /\ pc = "encoded" /\ ~encRet.nil
    /\ Len(pattern) >= 3 /\ ~pattern[1]
    /\ \E i \in 1..Len(palst.refs) : palst.refs[i].idx = 1
    /\ (Len(pattern) + 8 * Len(leaves)) % 8 # 0

\* C22: an artifact returned by Encode starts with "BAB2", the raster's
\* width and height as big-endian 16-bit values and the quality clamped to
\* 1..100; Decode of the artifact reads these three values back
C22_Header ==
    /\ (pc = "encoded" /\ ~encRet.nil) =>
          /\ Len(encRet.data) >= 9
          /\ SubSeq(encRet.data, 1, 4) = <<66, 65, 66, 50>>
          /\ encRet.data[5] * 256 + encRet.data[6] = img.w
          /\ encRet.data[7] * 256 + encRet.data[8] = img.h
          /\ encRet.data[5] < 256 /\ encRet.data[6] < 256
          /\ encRet.data[7] < 256 /\ encRet.data[8] < 256
          /\ encRet.data[9] = Min(Max(quality, 1), 100)
    /\ (run = 2 /\ pc \in {"dec_zstd", "dec_palettes", "dec_tree", "paint_spawn",
                         "paint_wait", "smooth", "decoded"}) =>
          /\ dW = img.w /\ dH = img.h
          /\ dQ = Min(Max(quality, 1), 100)

\* the 257-pixel row went through Encode and Decode
C22_Witness ==
    /\ pc = "decoded" /\ run = 2 /\ ~decRet.nil
    /\ img.w = 257 /\ dW = 257 /\ data[5] = 1 /\ data[6] = 1

\* C25: the emission pass, run on the pattern and the local indices that the
\* analysis pass and the Palette Builder produced for the same raster,
\* parameters and stripes, returns no error, and after the last stripe the
\* pattern cursor is len(pattern) and the leaf cursor the number of leaves
C25_EmissionConsistent ==
    [][(pc = "emit") =>
          LET st == emitTree(img.w % 65536,
                             splitStripes(img.h % 65536, encParams.minBlock, ncpuEnc),
                             encParams, palst.refs, pattern, raw)
          IN  /\ st.err = ""
              /\ st.patPos = Len(pattern)
              /\ st.leafPos = Len(leaves)
              /\ Len(palst.refs) = Len(leaves)
              /\ encRet'.err = "" /\ ~encRet'.nil
    ]_vars

\* an emitted artifact of two stripes, one of them split
C25_Witness ==
    /\ pc = "encoded" /\ ~encRet.nil
    /\ Len(encStripes) = 2
    /\ \E k \in 1..Len(pattern) : ~pattern[k]
    /\ Len(leaves) >= 3

\* C26: Decode of the encoder's artifact on a host with the same worker
\* count parses without error a job list that matches the leaf list of the
\* analysis pass one to one and in order: job k has the rectangle of leaf k,
\* palette k / 256 (k from 0) and the local index the Palette Builder gave
\* to leaf k
C26_JobsMatchLeaves ==
    (run = 2 /\ ncpuDec = ncpuEnc
        /\ pc \in {"paint_spawn", "paint_wait", "smooth", "decoded"}) =>
        /\ decRet.err = ""
        /\ Len(jobs) = Len(leaves)
        /\ Len(jobs) = Len(leafRects)
        /\ \A k \in 1..Len(jobs) :
              /\ jobs[k].x = leafRects[k].x /\ jobs[k].y = leafRects[k].y
              /\ jobs[k].w = leafRects[k].w /\ jobs[k].h = leafRects[k].h
              /\ jobs[k].pal = (k - 1) \div 256
              /\ jobs[k].idx = palst.refs[k].idx

\* the 257-pixel row decoded: 257 jobs, the last one in the second palette
C26_Witness ==
    /\ run = 2 /\ ncpuDec = ncpuEnc /\ pc = "smooth"
    /\ Len(jobs) = 257 /\ jobs[257].pal = 1 /\ jobs[256].pal = 0
    /\ jobs[257].x = 256

\* C27: once Decode has parsed every stripe of an artifact of Encode, the
\* bit reader has consumed the bits the encoder wrote and no more: no whole
\* byte is unread, and the unread bits of the last byte, at most 7, are 0
C27_AllBitsRead ==
    (run = 2 /\ Parsed) =>
        /\ bitsRead(br) = Len(pattern) + 8 * Len(leaves)
        /\ br.pos = Len(br.data)
        /\ Len(br.data) * 8 - bitsRead(br) <= 7
        /\ \A j \in bitsRead(br)..(Len(br.data) * 8 - 1) : streamBit(br.data, j) = 0

\* Go offset of the size field of palette k (from 1) in the raw payload
palOffset(pals, k) == 2 + SumSeq([j \in 1..(k - 1) |-> 1 + 3 * Len(pals[j])])

\* C29: Encode never returns a palette-size error: every palette that
\* buildPalettes returns, one of 256 entries included, is written with a
\* size field equal to its number of entries
C29_NoPaletteError ==
    /\ (pc = "encoded") =>
          encRet.err \notin {"_encode: palette size exceeds 255",
                             "buildPalettes: palette exceeded 256 colors"}
    /\ (pc = "emit") =>
          /\ Len(raw) = palOffset(palst.pals, Len(palst.pals) + 1)
          /\ raw[1] * 256 + raw[2] = Len(palst.pals)
          /\ \A k \in 1..Len(palst.pals) :
                raw[palOffset(palst.pals, k) + 1] = Len(palst.pals[k])

\* a and c differ by at most tol on each of R, G, B
within(a, c, tol) ==
    /\ a.R - c.R <= tol /\ c.R - a.R <= tol
    /\ a.G - c.G <= tol /\ c.G - a.G <= tol
    /\ a.B - c.B <= tol /\ c.B - a.B <= tol

\* C30: each iteration of buildPalettes gives leaf i the first entry, in
\* insertion order, of its group's palette that is within colorTol of the
\* leaf colour on every channel, or appends the leaf colour as a new entry
\* when there is none; so every leaf's palette colour is within colorTol of
\* the leaf's average colour on each channel
C30_FirstMatch ==
    [][(pc = "palettes" /\ palPos' = palPos + 1 /\ palst'.err = "") =>
          LET c == leaves[palPos + 1]
              tol == encParams.colorTol
              g == (palPos \div 256) + 1
              old == IF palPos % 256 = 0 THEN <<>> ELSE palst.pals[g]
              hits == {j \in 1..Len(old) : within(old[j], c, tol)}
              ref == palst'.refs[palPos + 1]
          IN  /\ Len(palst'.refs) = palPos + 1
              /\ Len(palst'.pals) = g
              /\ ref.pal = g - 1
              /\ \A k \in 1..(g - 1) : palst'.pals[k] = palst.pals[k]
              /\ \A i \in 1..palPos : palst'.refs[i] = palst.refs[i]
              /\ IF hits # {}
                 THEN /\ palst'.pals[g] = old
                      /\ ref.idx + 1 \in hits
                      /\ \A j \in hits : ref.idx + 1 <= j
                 ELSE /\ palst'.pals[g] = Append(old, c)
                      /\ ref.idx + 1 = Len(old) + 1
              /\ \A i \in 1..(palPos + 1) :
                    within(palst'.pals[palst'.refs[i].pal + 1][palst'.refs[i].idx + 1],
                           leaves[i], tol)
    ]_vars

\* a leaf within colorTol of two entries of its palette got the first one
C30_Witness ==
    /\ pc = "write_palettes"
    /\ \E i \in 1..Len(leaves) :
          /\ Len(palst.pals[1]) >= 2
          /\ within(palst.pals[1][1], leaves[i], encParams.colorTol)
          /\ within(palst.pals[1][2], leaves[i], encParams.colorTol)
          /\ leaves[i] # palst.pals[1][1]
          /\ palst.refs[i] = [pal |-> 0, idx |-> 0]

\* C31: in every palette that buildPalettes returns, no two different entries
\* are within colorTol of each other on all of R, G and B
C31_Deduplicated ==
    (pc = "write_palettes") =>
        \A g \in 1..Len(palst.pals) :
            \A j1, j2 \in 1..Len(palst.pals[g]) :
                (j1 < j2) =>
                    ~within(palst.pals[g][j1], palst.pals[g][j2], encParams.colorTol)

\* a palette of two entries returned after a third leaf, within tolerance of
\* the first entry, was merged into it
C31_Witness ==
    /\ pc = "write_palettes"
    /\ Len(palst.pals) = 1 /\ Len(palst.pals[1]) = 2 /\ Len(leaves) = 3
    /\ leaves[3] # palst.pals[1][1] /\ leaves[3] # palst.pals[1][2]
    /\ within(leaves[3], palst.pals[1][1], encParams.colorTol)

\* C32: buildPalettes on n >= 1 leaves returns ceil(n / 256) palettes, gives
\* leaf i (from 0) the palette index i div 256 and an index inside that
\* palette, and every entry of palette g is the colour of a leaf with
\* ordinal in 256g .. 256g + 255; a group's palette starts with the group's
\* first leaf colour, whatever the palettes before it hold
C32_GroupLocal ==
    (pc = "write_palettes" /\ Len(leaves) >= 1) =>
        LET n == Len(leaves)
            group(g) == {i \in 1..n : 256 * (g - 1) < i /\ i <= 256 * g}
        IN  /\ Len(palst.pals) * 256 >= n
            /\ (Len(palst.pals) - 1) * 256 < n
            /\ Len(palst.refs) = n
            /\ \A i \in 1..n :
                  /\ palst.refs[i].pal * 256 <= i - 1
                  /\ i - 1 < (palst.refs[i].pal + 1) * 256
                  /\ palst.refs[i].idx < Len(palst.pals[palst.refs[i].pal + 1])
            /\ \A g \in 1..Len(palst.pals) :
                  /\ Len(palst.pals[g]) >= 1
                  /\ palst.pals[g][1] = leaves[256 * (g - 1) + 1]
                  /\ \A j \in 1..Len(palst.pals[g]) :
                        \E i \in group(g) : leaves[i] = palst.pals[g][j]

\* 257 leaves in two palettes; leaf 256 has the colour of leaf 0 and yet is
\* entry 0 of the second palette
C32_Witness ==
    /\ pc = "write_palettes"
    /\ Len(leaves) = 257 /\ Len(palst.pals) = 2
    /\ leaves[257] = leaves[1]
    /\ palst.pals[2] = <<leaves[257]>>
    /\ palst.refs[257] = [pal |-> 1, idx |-> 0]
    /\ palst.refs[256].pal = 0

\* largest minus smallest of a set of lumas, 0 for the empty set
spread(S) == IF S = {} THEN 0 ELSE SetMax(S) - SetMin(S)

\* the pixels of the raster in region r: those on the region's outline when
\* onBorder, the others when not
ringPixels(r, onBorder) ==
    {q \in (r.x..(r.x + r.w - 1)) \X (r.y..(r.y + r.h - 1)) :
        /\ InBounds(img, q[1], q[2])
        /\ onBorder = (\/ q[1] = r.x \/ q[1] = r.x + r.w - 1
                       \/ q[2] = r.y \/ q[2] = r.y + r.h - 1)}

\* C33: at every node of the analysis, a region larger than minBlock x
\* minBlock whose lumas are not all equal becomes a leaf exactly when it is
\* not edge-dominated (border spread > 0, inner spread > 0, border spread
\* >= 2 * inner spread, and a side above 2 * minBlock), its luma spread is at
\* most maxGrad and both sides are at most 4 * minBlock; so every leaf is
\* minBlock-sized, flat, or small with a spread of at most maxGrad
C33_LeafRule ==
    [][\A i \in (DOMAIN walks) \cap (DOMAIN walks') :
          (walks'[i] # walks[i] /\ walks[i].stack # <<>>) =>
              LET r == Head(walks[i].stack)
                  mb == encParams.minBlock
                  e == spread(regionLumas(r))
                  be == spread({luma(img.pix[p]) : p \in ringPixels(r, TRUE)})
                  ie == spread({luma(img.pix[p]) : p \in ringPixels(r, FALSE)})
                  edgeDominated ==
                      be > 0 /\ ie > 0 /\ be >= 2 * ie /\ (r.w > 2 * mb \/ r.h > 2 * mb)
                  small == r.w <= 4 * mb /\ r.h <= 4 * mb
                  isLeaf == walks'[i].pattern = Append(walks[i].pattern, TRUE)
              IN  /\ ((r.w > mb \/ r.h > mb) /\ e > 0) =>
                        (isLeaf <=> (~edgeDominated /\ e <= encParams.maxGrad /\ small))
                  /\ isLeaf =>
                        \/ (r.w <= mb /\ r.h <= mb)
                        \/ e = 0
                        \/ (small /\ e <= encParams.maxGrad)
    ]_vars

\* the 4x3 raster whose outline spreads 3 lumas and whose inside spreads 1
\* was split at quality 50 (maxGrad 51), and its halves became leaves
C33_Witness ==
    /\ pc = "palettes" /\ palPos = 0
    /\ img.w = 4 /\ img.h = 3 /\ Len(encStripes) = 1 /\ quality = 50
    /\ spread(regionLumas(Region(0, 0, 4, 3))) <= encParams.maxGrad
    /\ spread({luma(img.pix[p]) : p \in ringPixels(Region(0, 0, 4, 3), FALSE)}) = 1
    /\ spread({luma(img.pix[p]) : p \in ringPixels(Region(0, 0, 4, 3), TRUE)}) = 3
    /\ pattern = <<FALSE, TRUE, TRUE>>

\* bits of the structural stream that stripe k (from 1) of the analysis
\* accounts for: one per node and eight per leaf
stripeBits(k) == Len(results[k].pattern) + 8 * Len(results[k].leaves)

\* C34: the structural stream of an artifact of several stripes is the
\* stripes' node sequences one after the other, top stripe first, with no
\* padding between them: the first bit of a stripe follows the last bit of
\* the stripe above it, also inside a byte; only after the last stripe is
\* the stream padded, by less than 8 bits (one Flush)
C34_OneStream ==
    (pc = "encoded" /\ ~encRet.nil /\ Len(results) >= 2) =>
        LET S == Len(results)
            bitStart(k) == SumSeq([j \in 1..(k - 1) |-> stripeBits(j)])
            leafStart(k) == SumSeq([j \in 1..(k - 1) |-> Len(results[j].leaves)])
            off == palOffset(palst.pals, Len(palst.pals) + 1)
            bytes == SubSeq(raw, off + 1, Len(raw))
        IN  /\ \A k \in 1..S :
                  LET exp == grammarBits(results[k].pattern,
                                         [i \in 1..Len(results[k].leaves) |->
                                             palst.refs[leafStart(k) + i].idx])
                  IN  /\ Len(exp) = stripeBits(k)
                      /\ \A j \in 1..Len(exp) :
                            streamBit(bytes, bitStart(k) + j - 1) = exp[j]
            /\ \A k \in 1..(S - 1) :
                  /\ encStripes[k].y + encStripes[k].h = encStripes[k + 1].y
                  /\ \A i \in 1..Len(results[k].rects) :
                        results[k].rects[i].y < encStripes[k + 1].y
            /\ Len(bytes) * 8 >= bitStart(S + 1)
            /\ Len(bytes) * 8 - bitStart(S + 1) <= 7

\* two stripes of one leaf each: 9 bits, then 9 bits from inside the second
\* byte, then 6 bits of padding
C34_Witness ==
    /\ pc = "encoded" /\ ~encRet.nil /\ Len(results) = 2
    /\ stripeBits(1) = 9 /\ stripeBits(2) = 9
    /\ Len(raw) = palOffset(palst.pals, Len(palst.pals) + 1) + 3
    /\ palst.refs[2].idx = 1

\* C36: whatever the payload, every paint job in the job list names an
\* existing palette and an entry inside it, from the moment it is appended
\* (also when the parse fails later on), so that palettes[job.pal][job.idx]
\* is in range for every job a paint worker is given
C36_JobsInRange ==
    /\ \A k \in 1..Len(jobs) :
          /\ jobs[k].pal >= 0 /\ jobs[k].pal < Len(palettes)
          /\ jobs[k].idx >= 0 /\ jobs[k].idx < Len(palettes[jobs[k].pal + 1])
    /\ \A k \in 1..Len(pstatus) :
          (pstatus[k] = "running") =>
              LET c == paintChunks(Len(jobs), ncpuDec)[k]
              IN  0 <= c.start /\ c.end <= Len(jobs)

\* a hand-made payload: one job was appended, then the parse failed on the
\* next leaf's index
C36_Witness ==
    /\ run = 0 /\ Len(jobs) >= 1
    /\ pc = "decoded" /\ decRet.nil
    /\ decRet.err = "decodeRegionJobs: local color index out of range"

\* a region on which neither split test of decodeRegionJobs succeeds
unsplittable(w, h, mb) == ((w \div 2) < mb \/ w < h) /\ (h \div 2) <= 0

\* Decode is about to parse a raster of one stripe whose root region cannot
\* be split, and the first bit of the stream is 0
zeroBitAtUnsplittable ==
    /\ pc = "dec_tree"
    /\ Len(splitStripes(dH, decParams.minBlock, ncpuDec)) = 1
    /\ unsplittable(dW, dH, decParams.minBlock)
    /\ Len(br.data) >= 1 /\ streamBit(br.data, 0) = 0

\* the value of bits 1..8 of the stream
indexAfterFlag == SumSeq([i \in 1..8 |-> streamBit(br.data, i) * Pow2(8 - i)])

\* at every node of the analysis: a node that becomes internal can be split
internalNodesSplittable ==
    \A i \in (DOMAIN walks) \cap (DOMAIN walks') :
        (/\ walks'[i] # walks[i] /\ walks[i].stack # <<>>
         /\ walks'[i].pattern = Append(walks[i].pattern, FALSE)) =>
            ~unsplittable(Head(walks[i].stack).w, Head(walks[i].stack).h,
                          encParams.minBlock)

\* C37 (as stated): on a 0 bit for a region that cannot be split, the
\* decoder does not fail and does not recurse: it reads the next 8 bits as a
\* local index, without a leaf bit, and appends exactly one paint job that
\* covers the region; the encoder never emits a 0 bit for such a region
C37_FallbackNeverFails ==
    [][/\ zeroBitAtUnsplittable =>
             /\ pc' = "paint_spawn" /\ decRet'.err = ""
             /\ Len(jobs') = 1
             /\ jobs'[1].x = 0 /\ jobs'[1].y = 0
             /\ jobs'[1].w = dW /\ jobs'[1].h = dH
             /\ jobs'[1].idx = indexAfterFlag
             /\ bitsRead(br') = 9
       /\ internalNodesSplittable
       /\ (pc = "emit") => encRet'.err # "encodeRegion: inconsistent pattern/geometry"
    ]_vars

\* C37 (amended): on a 0 bit for a region that cannot be split, the decoder
\* does not recurse and reports no geometry error: it reads the next 8 bits
\* as a local index, without a leaf bit.  When the 8 bits are there and the
\* index is inside the leaf's palette it appends exactly one paint job that
\* covers the region; otherwise it fails with EOF, a palette-id error or a
\* local-index error and appends nothing.  The encoder never emits a 0 bit
\* for such a region
C37_Fallback ==
    [][/\ zeroBitAtUnsplittable =>
             LET have == Len(br.data) >= 2
                 inRange == Len(palettes) >= 1 /\ indexAfterFlag < Len(palettes[1])
             IN  /\ bitsRead(br') <= 9
                 /\ Len(jobs') <= 1
                 /\ (have /\ inRange) =>
                       /\ pc' = "paint_spawn" /\ decRet'.err = ""
                       /\ jobs' = <<[x |-> 0, y |-> 0, w |-> dW, h |-> dH,
                                     pal |-> 0, idx |-> indexAfterFlag]>>
                       /\ bitsRead(br') = 9
                 /\ ~(have /\ inRange) =>
                       /\ pc' = "decoded" /\ decRet'.nil /\ jobs' = <<>>
                       /\ decRet'.err =
                             (IF ~have THEN ErrEOF
                              ELSE IF Len(palettes) = 0
                              THEN "decodeRegionJobs: palette id out of range"
                              ELSE "decodeRegionJobs: local color index out of range")
       /\ internalNodesSplittable
       /\ (pc = "emit") => encRet'.err # "encodeRegion: inconsistent pattern/geometry"
    ]_vars

\* a 1x1 raster whose stream starts with 0 and then holds index 1: one job
\* with index 1 covers the pixel
C37_Witness ==
    /\ run = 0 /\ pc = "paint_spawn" /\ dW = 1 /\ dH = 1
    /\ streamBit(br.data, 0) = 0
    /\ jobs = <<[x |-> 0, y |-> 0, w |-> 1, h |-> 1, pal |-> 0, idx |-> 1]>>
    /\ bitsRead(br) = 9

(***************************************************************************)
(* Direct calls of the package's functions, outside Encode and Decode:     *)
(* `call` holds the arguments, then what the function returned.            *)
(***************************************************************************)
codecVars == <<img, quality, ncpuEnc, ncpuDec, pc, run, prevRet, encVars, decVars>>

\* neither Encode nor Decode is running
CodecIdle ==
    /\ img = NilImage /\ quality = 50
    /\ ncpuEnc = 1 /\ ncpuDec = 1
    /\ pc = "idle" /\ run = 0 /\ prevRet = NoEncRet
    /\ EncLocalsInit /\ data = <<>> /\ DecLocalsInit

\* paramsForQuality(q1) and paramsForQuality(q2), q1 <= q2
ParamsCalls ==
    {[fn |-> "paramsForQuality", at |-> "called", q1 |-> q1, q2 |-> q2,
      r1 |-> paramsForQuality(100), r2 |-> paramsForQuality(100)] :
        <<q1, q2>> \in {qq \in (1..100) \X (1..100) : qq[1] <= qq[2]}}

CallParamsForQuality ==
    /\ call.fn = "paramsForQuality" /\ call.at = "called"
    /\ call' = [call EXCEPT !.at = "returned",
                            !.r1 = paramsForQuality(call.q1),
                            !.r2 = paramsForQuality(call.q2)]
    /\ UNCHANGED codecVars

\* C18: for qualities q1 <= q2 in 1..100, paramsForQuality(q1) has maxGrad
\* and colorTol at least those of paramsForQuality(q2), minBlock is 1, and
\* colorTol is 1 + the integer part of (100 - q) * 12 / 100
C18_Monotone ==
    (call.fn = "paramsForQuality" /\ call.at = "returned") =>
        /\ call.r1.maxGrad >= call.r2.maxGrad
        /\ call.r1.colorTol >= call.r2.colorTol
        /\ call.r1.minBlock = 1 /\ call.r2.minBlock = 1
        /\ \A k \in {1, 2} :
              LET q == IF k = 1 THEN call.q1 ELSE call.q2
                  t == IF k = 1 THEN call.r1.colorTol ELSE call.r2.colorTol
              IN  /\ (t - 1) * 100 <= (100 - q) * 12
                  /\ (100 - q) * 12 < t * 100

C18_Witness ==
    /\ call.fn = "paramsForQuality" /\ call.at = "returned"
    /\ call.q1 < call.q2
    /\ call.r1.maxGrad > call.r2.maxGrad
    /\ call.r1.colorTol > call.r2.colorTol

\* three colours of luma 124, 126 and 127
SmoothColors == {RGB(200, 100, 50), RGB(206, 100, 50), RGB(210, 100, 50)}

\* the rasters of at most MaxArea pixels, and the 3x3 rasters (the centre
\* has all 8 neighbours) whose corners have one colour
SmoothRasters ==
    UNION {{[w |-> d[1], h |-> d[2], pix |-> f] :
               f \in [(0..(d[1] - 1)) \X (0..(d[2] - 1)) -> SmoothColors]} : d \in Dims}
    \cup {[w |-> 3, h |-> 3, pix |-> f] :
               f \in {g \in [(0..2) \X (0..2) -> SmoothColors] :
                         /\ g[<<0, 0>>] = g[<<2, 0>>]
                         /\ g[<<0, 0>>] = g[<<0, 2>>]
                         /\ g[<<0, 0>>] = g[<<2, 2>>]}}

\* smoothEdges(src, tol)
SmoothCalls ==
    {[fn |-> "smoothEdges", at |-> "called", src |-> r, tol |-> t, ret |-> NilImage] :
        r \in SmoothRasters, t \in {0, 1, 2}}

CallSmoothEdges ==
    /\ call.fn = "smoothEdges" /\ call.at = "called"
    /\ call' = [call EXCEPT !.at = "returned",
                            !.ret = smoothEdges(call.src, call.tol)]
    /\ UNCHANGED codecVars

\* the pixels of src next to p, diagonals included
around(src, p) ==
    {n \in DOMAIN src.pix : n # p /\ Abs(n[1] - p[1]) <= 1 /\ Abs(n[2] - p[2]) <= 1}

\* p differs in luma from none of its neighbours by more than 2 * tol
quiet(src, p, tol) ==
    \A n \in around(src, p) : Abs(luma(src.pix[n]) - luma(src.pix[p])) <= 2 * tol

\* C19: smoothEdges returns a raster of the same size in which every pixel
\* whose luma differs from each in-bounds neighbour's by at most 2 * tol has
\* the colour it had in the source, a pixel without neighbour included
C19_QuietCopied ==
    (call.fn = "smoothEdges" /\ call.at = "returned") =>
        /\ call.ret.w = call.src.w /\ call.ret.h = call.src.h
        /\ DOMAIN call.ret.pix = DOMAIN call.src.pix
        /\ \A p \in DOMAIN call.src.pix :
              quiet(call.src, p, call.tol) => call.ret.pix[p] = call.src.pix[p]

\* a 3x3 raster whose centre has a neighbour exactly 2 * tol away in luma
\* and is copied, while another pixel of the raster is blended
C19_Witness ==
    /\ call.fn = "smoothEdges" /\ call.at = "returned"
    /\ call.src.w = 3 /\ call.src.h = 3 /\ call.tol = 1
    /\ quiet(call.src, <<1, 1>>, 1)
    /\ \E n \in around(call.src, <<1, 1>>) :
          Abs(luma(call.src.pix[n]) - luma(call.src.pix[<<1, 1>>])) = 2
    /\ call.ret.pix[<<1, 1>>] = call.src.pix[<<1, 1>>]
    /\ \E p \in DOMAIN call.src.pix : call.ret.pix[p] # call.src.pix[p]

\* the values handed to WriteBit (0, 1) and to WriteByte
BitOps ==
    {[k |-> "bit", v |-> v] : v \in {0, 1}}
    \cup {[k |-> "byte", v |-> v] : v \in {0, 1, 128, 165, 255}}

\* a new BitWriter over an empty buffer; ops are the calls made so far, got
\* what the reader returned so far, flushes the calls of Flush, before the
\* writer as it was when Flush was last called
BitCalls ==
    {[fn |-> "BitWriter", at |-> "writing", ops |-> <<>>,
      bw |-> NewBitWriter(<<>>), br |-> NewBitReaderFromBytes(<<>>),
      got |-> <<>>, err |-> "",
      flushes |-> 0, before |-> NewBitWriter(<<>>)]}

CallWriteBit ==
    /\ call.fn = "BitWriter" /\ call.at = "writing" /\ Len(call.ops) < MaxOps
    /\ \E v \in {0, 1} :
          call' = [call EXCEPT !.ops = Append(@, [k |-> "bit", v |-> v]),
                               !.bw = WriteBit(@, v = 1)]
    /\ UNCHANGED codecVars

CallWriteByte ==
    /\ call.fn = "BitWriter" /\ call.at = "writing" /\ Len(call.ops) < MaxOps
    /\ \E o \in {x \in BitOps : x.k = "byte"} :
          call' = [call EXCEPT !.ops = Append(@, o), !.bw = WriteByte(@, o.v)]
    /\ UNCHANGED codecVars

CallFlush ==
    /\ call.fn = "BitWriter" /\ call.at = "writing"
    /\ call' = [call EXCEPT !.at = "flushed", !.bw = Flush(@),
                            !.flushes = 1, !.before = call.bw]
    /\ UNCHANGED codecVars

\* Flush is called once more, right after Flush
CallFlushAgain ==
    /\ call.fn = "BitWriter" /\ call.at = "flushed" /\ call.flushes = 1
    /\ call' = [call EXCEPT !.bw = Flush(@), !.flushes = 2, !.before = call.bw]
    /\ UNCHANGED codecVars

CallNewBitReader ==
    /\ call.fn = "BitWriter" /\ call.at = "flushed"
    /\ call' = [call EXCEPT !.at = "reading",
                            !.br = NewBitReaderFromBytes(call.bw.buf)]
    /\ UNCHANGED codecVars

\* the reader makes the call that matches the next call of the writer
CallReadBit ==
    /\ call.fn = "BitWriter" /\ call.at = "reading" /\ call.err = ""
    /\ Len(call.got) < Len(call.ops)
    /\ call.ops[Len(call.got) + 1].k = "bit"
    /\ LET r == ReadBit(call.br)
       IN  call' = [call EXCEPT !.br = r.br, !.err = r.err,
                                !.got = Append(@, [k |-> "bit", v |-> r.v])]
    /\ UNCHANGED codecVars

CallReadByte ==
    /\ call.fn = "BitWriter" /\ call.at = "reading" /\ call.err = ""
    /\ Len(call.got) < Len(call.ops)
    /\ call.ops[Len(call.got) + 1].k = "byte"
    /\ LET r == ReadByte(call.br)
       IN  call' = [call EXCEPT !.br = r.br, !.err = r.err,
                                !.got = Append(@, [k |-> "byte", v |-> r.v])]
    /\ UNCHANGED codecVars

\* the number of bits the calls ops wrote
opBits(ops) == SumSeq([i \in 1..Len(ops) |-> IF ops[i].k = "bit" THEN 1 ELSE 8])

\* C39: after every WriteBit, WriteByte and Flush on a BitWriter the
\* pending-bit count is in 0..7 and the accumulator is zero below its
\* pending bits; before Flush the buffer holds (bits written) div 8 bytes and
\* (bits written) mod 8 bits are pending; the first Flush appends the
\* accumulator when bits are pending and nothing otherwise, and a second
\* Flush right after it leaves the writer and the buffer as they are
C39_WriterState ==
    (call.fn = "BitWriter") =>
        LET n == opBits(call.ops)
        IN  /\ call.bw.nbit \in 0..7
            /\ call.bw.acc \in 0..255
            /\ call.bw.acc % Pow2(8 - call.bw.nbit) = 0
            /\ (call.at = "writing") =>
                  /\ Len(call.bw.buf) = n \div 8
                  /\ call.bw.nbit = n % 8
            /\ (call.flushes = 1) =>
                  /\ call.bw.nbit = 0
                  /\ call.bw.buf = (IF call.before.nbit = 0 THEN call.before.buf
                                    ELSE Append(call.before.buf, call.before.acc))
            /\ (call.flushes = 2) => call.bw = call.before

\* a bit and a byte written (9 bits), flushed into 2 bytes, flushed again
C39_Witness ==
    /\ call.fn = "BitWriter" /\ call.at = "flushed" /\ call.flushes = 2
    /\ call.ops = <<[k |-> "bit", v |-> 1], [k |-> "byte", v |-> 165]>>
    /\ call.bw.buf = <<210, 128>>

\* C20: after any WriteBit/WriteByte calls and one Flush, the matching
\* ReadBit/ReadByte calls return the written values and no error; the buffer
\* has the bytes the written bits need and no more, the first bit written is
\* the top bit of the first byte, and the unused low bits of the last byte
\* are 0
C20_BitRoundTrip ==
    (call.fn = "BitWriter") =>
        /\ call.err = ""
        /\ call.got = SubSeq(call.ops, 1, Len(call.got))
        /\ (call.at \in {"flushed", "reading"}) =>
              LET n == opBits(call.ops)
                  buf == call.bw.buf
              IN  /\ Len(buf) = (n + 7) \div 8
                  /\ call.bw.acc = 0 /\ call.bw.nbit = 0
                  /\ (n > 0) =>
                        buf[1] \div 128 =
                            (IF call.ops[1].k = "bit" THEN call.ops[1].v
                             ELSE call.ops[1].v \div 128)
                  /\ (n % 8 # 0) => buf[Len(buf)] % (2 ^ (8 - (n % 8))) = 0

\* a set bit, a byte written across a byte boundary and a clear bit, all
\* read back
C20_Witness ==
    /\ call.fn = "BitWriter" /\ call.at = "reading"
    /\ call.ops = <<[k |-> "bit", v |-> 1], [k |-> "byte", v |-> 165],
                    [k |-> "bit", v |-> 0]>>
    /\ call.got = call.ops
    /\ call.bw.buf = <<210, 128>>

(***************************************************************************)
(* The command-line tool (main.go).  A string is a sequence of             *)
(* one-character strings; os.Args[0] is the program name.                  *)
(***************************************************************************)
\* quality := 70
defaultQuality == 70

Digits == <<"0", "1", "2", "3", "4", "5", "6", "7", "8", "9">>

digitValue(ch) == (CHOOSE i \in 1..10 : Digits[i] = ch) - 1

isDigit(ch) == \E i \in 1..10 : Digits[i] = ch

RECURSIVE decimalValue(_, _)
decimalValue(s, acc) ==
    IF s = <<>> THEN acc ELSE decimalValue(Tail(s), acc * 10 + digitValue(Head(s)))

\* strconv.Atoi: an optional sign and at least one decimal digit
Atoi(s) ==
    LET signed == s # <<>> /\ s[1] \in {"+", "-"}
        body == IF signed THEN Tail(s) ELSE s
    IN  IF body = <<>> \/ \E i \in 1..Len(body) : ~isDigit(body[i])
        THEN [v |-> 0, err |-> "strconv.Atoi: invalid syntax"]
        ELSE [v |-> IF signed /\ s[1] = "-" THEN 0 - decimalValue(body, 0)
                    ELSE decimalValue(body, 0),
              err |-> ""]

\* filepath.Ext: the suffix from the last dot of the last path element
Ext(path) ==
    LET dots == {i \in 1..Len(path) :
                    path[i] = "." /\ \A j \in (i + 1)..Len(path) : path[j] \notin {".", "/"}}
    IN  IF dots = {} THEN <<>> ELSE SubSeq(path, SetMax(dots), Len(path))

\* strings.ToLower over the letters that occur
ToLower(s) ==
    [i \in 1..Len(s) |->
        CASE s[i] = "B" -> "b" [] s[i] = "A" -> "a" [] s[i] = "E" -> "e" [] OTHER -> s[i]]

ArgPaths == {<<"a", ".", "p", "n", "g">>, <<"a", ".", "b", "a", "b", "e">>,
             <<"a", ".", "B", "A", "B", "E">>}

ArgWords == {<<"5">>, <<"7", "0">>, <<"1", "0", "1">>, <<"-", "1">>, <<"b", "w">>,
             <<"0">>}

ProgName == <<"b", "a", "b", "e">>

\* os.Args of a run of the tool
ArgLists ==
    {<<ProgName>>}
    \cup {<<ProgName, p>> : p \in ArgPaths}
    \cup {<<ProgName, p, a>> : p \in ArgPaths, a \in ArgWords}
    \cup {<<ProgName, p, a, c>> : p \in ArgPaths, a \in ArgWords, c \in ArgWords}
    \cup {<<ProgName, p, a, c, c>> : p \in {<<"a", ".", "p", "n", "g">>},
                                     a \in {<<"5">>}, c \in {<<"b", "w">>}}

\* what main did: op "exit" (os.Exit(1) before any work), "decode" or
\* "encode" with the quality and the bw flag handed to Encode
MainCalls ==
    {[fn |-> "main", at |-> "called", args |-> a,
      op |-> "", quality |-> 0, bwmode |-> FALSE] : a \in ArgLists}

main(args) ==
    IF Len(args) < 2 \/ Len(args) > 4
    THEN [op |-> "exit", quality |-> 0, bwmode |-> FALSE]
    ELSE IF ToLower(Ext(args[2])) = <<".", "b", "a", "b", "e">>
    THEN [op |-> "decode", quality |-> 0, bwmode |-> FALSE]
    ELSE LET given == Len(args) >= 3
             q == IF given THEN Atoi(args[3]) ELSE [v |-> 0, err |-> ""]
         IN  IF given /\ q.err # ""
             THEN [op |-> "exit", quality |-> defaultQuality, bwmode |-> FALSE]
             ELSE IF given /\ (q.v < 0 \/ q.v > 100)
             THEN [op |-> "exit", quality |-> defaultQuality, bwmode |-> FALSE]
             ELSE [op |-> "encode",
                   quality |-> IF given THEN q.v ELSE defaultQuality,
                   bwmode |-> \E i \in 3..Len(args) : args[i] = <<"b", "w">>]

CallMain ==
    /\ call.fn = "main" /\ call.at = "called"
    /\ LET r == main(call.args)
       IN  call' = [call EXCEPT !.at = "returned", !.op = r.op,
                                !.quality = r.quality, !.bwmode = r.bwmode]
    /\ UNCHANGED codecVars

\* C24: run with an image and no quality argument, the tool encodes with
\* quality 10
C24_DefaultQuality ==
    (call.fn = "main" /\ call.at = "returned" /\ Len(call.args) = 2
        /\ call.op = "encode") => call.quality = 10

(***************************************************************************)
(* The split of one region by each of the three passes.                    *)
(***************************************************************************)
\* a raster in which any two pixels side by side differ by 3 in luma
Checker(w, h) ==
    [w |-> w, h |-> h,
     pix |-> [p \in (0..(w - 1)) \X (0..(h - 1)) |->
                 IF (p[1] + p[2]) % 2 = 0 THEN RGB(200, 100, 50) ELSE RGB(210, 100, 50)]]

\* the node "0 leaf leaf" with local indices 0, as encodeRegion writes it
splitBits ==
    Flush(encodeLeaf(encodeLeaf(WriteBit(NewBitWriter(<<>>), FALSE), 0), 0)).buf

\* one palette with every local index
fullPalette == <<[i \in 1..PalCap |-> RGB(0, 0, 0)]>>

\* the root region (0, 0, w, h) handled by collectRegionColors,
\* encodeRegion (pattern: internal, leaf, leaf) and decodeRegionJobs
SplitCalls ==
    {[fn |-> "split", at |-> "called", w |-> d[1], h |-> d[2], q |-> q,
      an |-> NewWalk(Region(0, 0, d[1], d[2])), encErr |-> "", decJobs |-> <<>>,
      decErr |-> ""] :
        d \in (0..MaxArea) \X (0..MaxArea), q \in Qualities}

CallSplit ==
    /\ call.fn = "split" /\ call.at = "called"
    /\ LET params == paramsForQuality(call.q)
           enc == encodeRegion(0, 0, call.w, call.h, params, <<0, 0>>,
                               <<FALSE, TRUE, TRUE>>,
                               [bw |-> NewBitWriter(<<>>), leafPos |-> 0,
                                patPos |-> 0, err |-> ""])
           dec == decodeRegionJobs(0, 0, call.w, call.h, params, fullPalette,
                                   [br |-> NewBitReaderFromBytes(splitBits),
                                    leafCounter |-> 0, jobs |-> <<>>, err |-> ""])
       IN  call' = [call EXCEPT !.at = "returned",
                                !.an = collectStep(Checker(call.w, call.h), params, call.an),
                                !.encErr = enc.err,
                                !.decJobs = dec.jobs,
                                !.decErr = dec.err]
    /\ UNCHANGED codecVars

\* the two children of (0, 0, w, h) as the claim gives them, minBlock 1
splitByRule(w, h) ==
    IF w >= h /\ w \div 2 >= 1
    THEN <<[x |-> 0, y |-> 0, w |-> w \div 2, h |-> h],
           [x |-> w \div 2, y |-> 0, w |-> w - (w \div 2), h |-> h]>>
    ELSE <<[x |-> 0, y |-> 0, w |-> w, h |-> h \div 2],
           [x |-> 0, y |-> h \div 2, w |-> w, h |-> h - (h \div 2)]>>

jobRect(j) == [x |-> j.x, y |-> j.y, w |-> j.w, h |-> j.h]

\* C28: a region that the analysis pass treats as an internal node is split
\* by all three passes at w/2 when w >= h and w/2 >= minBlock, else at h/2,
\* first child first; and the regions where the decoder's test h1 <= 0
\* fires are those where the encoder's test h1 < minBlock fires
C28_SameSplit ==
    (call.fn = "split" /\ call.at = "returned") =>
        /\ (call.an.pattern = <<FALSE>>) =>
              /\ call.an.stack = splitByRule(call.w, call.h)
              /\ call.encErr = ""
              /\ call.decErr = "" /\ Len(call.decJobs) = 2
              /\ <<jobRect(call.decJobs[1]), jobRect(call.decJobs[2])>>
                     = splitByRule(call.w, call.h)
        /\ (call.encErr = "encodeRegion: inconsistent pattern/geometry")
              <=> (call.decErr = "" /\ Len(call.decJobs) = 1)
        /\ (call.encErr = "") <=> (call.decErr = "" /\ Len(call.decJobs) = 2)
        /\ (call.encErr = "") =>
              <<jobRect(call.decJobs[1]), jobRect(call.decJobs[2])>>
                  = splitByRule(call.w, call.h)

\* a square region, split by width by all three, and a 1 x 3 region, split
\* by height
C28_Witness ==
    /\ call.fn = "split" /\ call.at = "returned"
    /\ call.w = 1 /\ call.h = 3
    /\ call.an.pattern = <<FALSE>>
    /\ call.encErr = "" /\ Len(call.decJobs) = 2
    /\ call.decJobs[2].y = 1 /\ call.decJobs[2].h = 2

(***************************************************************************)
(* paintLeafJobsParallel called on its own: a row of n one-pixel jobs, and *)
(* any worker count.                                                       *)
(***************************************************************************)
\* job j (from 0) is the pixel (j, 0), with palette entry j mod 2
RowJobs(n) ==
    [j \in 1..n |-> [x |-> j - 1, y |-> 0, w |-> 1, h |-> 1,
                     pal |-> 0, idx |-> (j - 1) % 2]]

PaintPalettes == <<(<<RGB(200, 100, 50), RGB(210, 100, 50)>>)>>

\* paintLeafJobsParallel(dst, palettes, jobs) where runtime.NumCPU() is numCPU
PaintCalls ==
    {[fn |-> "paintLeafJobsParallel", at |-> "called", jobs |-> RowJobs(n),
      numCPU |-> c, chunks |-> <<>>, dst |-> NewRGBA(n, 1)] :
        n \in 1..MaxJobs, c \in 1..(MaxJobs + 2)}

\* the workers' loops, chunk after chunk
RECURSIVE paintAll(_, _, _, _, _)
paintAll(d, pals, js, chunks, k) ==
    IF k > Len(chunks) THEN d
    ELSE paintAll(paintJobs(d, pals, js, chunks[k].start + 1, chunks[k].end),
                  pals, js, chunks, k + 1)

\* the call up to the return of wg.Wait(): chunks are the slices handed to
\* the goroutines
CallPaintLeafJobs ==
    /\ call.fn = "paintLeafJobsParallel" /\ call.at = "called"
    /\ LET cs == paintChunks(Len(call.jobs), call.numCPU)
       IN  call' = [call EXCEPT !.at = "returned",
                                !.chunks = cs,
                                !.dst = paintAll(call.dst, PaintPalettes, call.jobs, cs, 1)]
    /\ UNCHANGED codecVars

\* C35: for n >= 1 jobs and any worker count >= 1, the slices that
\* paintLeafJobsParallel hands to its workers are non-empty, contiguous and
\* in order, start at job 0 and end at job n - 1, so that every job is in
\* exactly one slice; at most min(worker count, n) workers are started, and
\* every job's pixel is painted
C35_ChunksPartition ==
    (call.fn = "paintLeafJobsParallel" /\ call.at = "returned") =>
        LET n == Len(call.jobs)
            cs == call.chunks
        IN  /\ Len(cs) >= 1
            /\ Len(cs) <= call.numCPU /\ Len(cs) <= n
            /\ \A k \in 1..Len(cs) : 0 <= cs[k].start /\ cs[k].start < cs[k].end /\ cs[k].end <= n
            /\ cs[1].start = 0 /\ cs[Len(cs)].end = n
            /\ \A k \in 1..(Len(cs) - 1) : cs[k].end = cs[k + 1].start
            /\ \A j \in 0..(n - 1) :
                  Cardinality({k \in 1..Len(cs) : cs[k].start <= j /\ j < cs[k].end}) = 1
            /\ \A j \in 0..(n - 1) :
                  call.dst.pix[<<j, 0>>] = PaintPalettes[1][(j % 2) + 1]

\* 5 jobs on 4 CPUs: chunks of 2, 2 and 1 jobs, the fourth worker is not
\* started
C35_Witness ==
    /\ call.fn = "paintLeafJobsParallel" /\ call.at = "returned"
    /\ Len(call.jobs) = 5 /\ call.numCPU = 4
    /\ call.chunks = <<[start |-> 0, end |-> 2], [start |-> 2, end |-> 4],
                       [start |-> 4, end |-> 5]>>

(***************************************************************************)
(* The palette count field on its own: what Encode writes for a palette    *)
(* list of a given length, and what Decode reads back.  Only the length of *)
(* the list is kept.  A pixel-level checkerboard of black and white has    *)
(* one leaf per pixel and one two-entry palette per 256 leaves: 4096x4096  *)
(* pixels give 65536 palettes.                                             *)
(***************************************************************************)
\* len(pals) for rasters within the size limit
PaletteCounts == {1, 2, 256, 65535, 65536, 65537}

\* buildPalettes has returned lenPals palettes
CountCalls ==
    {[fn |-> "paletteCount", at |-> "built", lenPals |-> n,
      raw |-> <<>>, numPalettes |-> 0] : n \in PaletteCounts}

\* binary.Write(&raw, binary.BigEndian, uint16(len(pals)))
CallWritePaletteCount ==
    /\ call.fn = "paletteCount" /\ call.at = "built"
    /\ call' = [call EXCEPT !.at = "written", !.raw = BE16(call.lenPals)]
    /\ UNCHANGED codecVars

\* binary.Read(reader, binary.BigEndian, &numPalettes)
CallReadPaletteCount ==
    /\ call.fn = "paletteCount" /\ call.at = "written"
    /\ call' = [call EXCEPT !.at = "read", !.numPalettes = readU16(call.raw, 0).v]
    /\ UNCHANGED codecVars

\* C38: the palette count that Encode writes as a big-endian 16-bit field,
\* and that Decode reads back, equals the number of palettes built, for
\* every raster within the size limit, those of more than 65535 * 256
\* leaves included
C38_CountNoWrap ==
    (call.fn = "paletteCount" /\ call.at \in {"written", "read"}) =>
        /\ Len(call.raw) = 2
        /\ call.raw[1] * 256 + call.raw[2] = call.lenPals
        /\ (call.at = "read") => call.numPalettes = call.lenPals

UnitInit == CodecIdle /\ call \in (ParamsCalls \cup SmoothCalls \cup BitCalls \cup MainCalls
                               \cup SplitCalls \cup PaintCalls
                               \cup CountCalls)

UnitNext ==
    \/ CallParamsForQuality
    \/ CallSmoothEdges
    \/ CallWriteBit
    \/ CallWriteByte
    \/ CallFlush
    \/ CallFlushAgain
    \/ CallNewBitReader
    \/ CallReadBit
    \/ CallReadByte
    \/ CallMain
    \/ CallSplit
    \/ CallPaintLeafJobs
    \/ CallWritePaletteCount
    \/ CallReadPaletteCount

UnitSpec == UnitInit /\ [][UnitNext]_vars

====
